---------------------------- MODULE Spec2Model ----------------------------
(***************************************************************************)
(* Dancing Links (nwhean/pydlx, package dancing_link): the node registry,  *)
(* the network builder, the reversible link operations and the Algorithm X *)
(* / Algorithm C search generators, modelled as state machines.            *)
(*                                                                         *)
(* Object references are modelled by the id of the object, which is its    *)
(* index in DancingLink._instances; Python's None is NoneId for a          *)
(* reference and NoneColour for a header colour.                           *)
(***************************************************************************)
EXTENDS Integers, Sequences, FiniteSets, TLC

VARIABLES
    matrix,     \* the option matrix given to the builder
    primary,    \* the number of primary items given to the builder
    algo,       \* which generator / driver runs: "xc", "ecx", "xcc", "ops",
                \* "search", "search_by", "delete"
    reg,        \* DancingLink._instances with every field of every node
    net,        \* the array network (Network / NetworkColour) of the same matrix
    built,      \* reg right after create_network returned
    built_net,  \* net right after Network.__init__ returned
    pc,         \* position of the generator: X2, X5, X6, yield (S2, S5, S6,
                \* Syield in Network.search), stopped, done, error; of the
                \* drivers: do, undo, built
    stack,      \* one frame [i, x, node] per active level of the recursion
    sol,        \* the partial solution (list of option nodes)
    choices,    \* kwargs['choices']
    branches,   \* kwargs['branches']
    out,        \* the solutions yielded so far, in order (the ids of the
                \* nodes in DancingLink._instances when a network is discarded)
    undo,       \* link operations applied and not yet reverted (operations driver)
    netroot,    \* the root returned by create_network
    given,      \* the primary and secondary arguments given to the builder
    raised      \* whether create_network raised

vars == <<matrix, primary, algo, reg, net, built, built_net, pc, stack, sol,
          choices, branches, out, undo, netroot, given, raised>>

(***************************************************************************)
(* Bounds of the model.                                                    *)
(***************************************************************************)
MaxRows == 2        \* rows of the 0/1 matrices searched by xc
MaxCols == 3        \* columns of the 0/1 matrices searched by xc
XccRows == 3        \* rows of the coloured matrices searched by xcc
XccCols == 3        \* columns of the coloured matrices searched by xcc
OpsRows == 2        \* rows of the matrices the link operations are applied to
OpsCols == 3        \* columns of the matrices the link operations are applied to
MaxSecondary == 1   \* secondary items of a coloured matrix
MaxColour == 2      \* colour tokens 2 .. MaxColour+1 in secondary columns
MaxOps == 2         \* link operations applied before they are reverted
ArgRows == 2        \* rows of the matrices given to the builders
ArgCols == 2        \* entries of a row of a matrix given to the builders
TwoRows == 2        \* rows of a coloured network that shares the registry
TwoCols == 2        \* columns of a coloured network that shares the registry
OtherRows == 1      \* rows of the second network of the registry
OtherCols == 2      \* columns of the second network of the registry
PulledRows == 2     \* rows of a coloured matrix of a search pulled to the end
PulledCols == 2     \* columns of a coloured matrix of a search pulled to the end
SameRows == 2       \* rows of the matrices both implementations are called on
SameCols == 2       \* columns of the matrices both implementations are called on
MaxCalls == 3       \* calls made on both implementations
DeleteRows == 2     \* rows of the matrices of the networks that are discarded
DeleteCols == 3     \* columns of the matrices of the networks that are discarded
MaxDepth == 3       \* nested calls of delete before Python raises RecursionError

(***************************************************************************)
(* None.                                                                   *)
(***************************************************************************)
NoneId == -1
NoneColour == -2

\* Python evaluates eagerly: r is computed before e is
Strict(r, e) == IF r.n >= 0 THEN e ELSE e

\* Python's max over a non-empty set of integers
Max(S) == CHOOSE v \in S : \A w \in S : w <= v

(***************************************************************************)
(* link.py: the registry and the constructors.                             *)
(***************************************************************************)
EmptyRegistry ==
    [n |-> 0, kind |-> <<>>, up |-> <<>>, down |-> <<>>, left |-> <<>>,
     right |-> <<>>, size |-> <<>>, name |-> <<>>, column |-> <<>>,
     colour |-> <<>>]

\* DancingLink.__init__: id = len(_instances), up = down = self, append.
\* The fields a subclass sets later start as None here.
DancingLink_init(r, k) ==
    LET id == r.n IN
    [n |-> id + 1,
     kind   |-> r.kind   @@ (id :> k),
     up     |-> r.up     @@ (id :> id),
     down   |-> r.down   @@ (id :> id),
     left   |-> r.left   @@ (id :> NoneId),
     right  |-> r.right  @@ (id :> NoneId),
     size   |-> r.size   @@ (id :> 0),
     name   |-> r.name   @@ (id :> NoneId),
     column |-> r.column @@ (id :> NoneId),
     colour |-> r.colour @@ (id :> NoneColour)]

\* Column.__init__ / ColumnColour.__init__ with name None: the name is
\* str(id), size 0, left = right = self; a ColumnColour's colour is None.
Column_init(r, k) ==
    LET id == r.n
        d == DancingLink_init(r, k)
    IN [d EXCEPT !.name[id] = id, !.size[id] = 0,
                 !.left[id] = id, !.right[id] = id,
                 !.colour[id] = NoneColour]

\* DancingLink._add_down: add node below self
DancingLink_add_down(r, self, node) ==
    [r EXCEPT !.up[node] = self,
              !.down[node] = r.down[self],
              !.up[r.down[self]] = node,
              !.down[self] = node]

\* add_bottom that adds below the header itself: the newest node on top
Column_add_bottom_at_top(r, self, node) ==
    [DancingLink_add_down(r, self, node) EXCEPT !.size[self] = @ + 1]

\* Column.add_bottom
Column_add_bottom(r, self, node) ==
    [DancingLink_add_down(r, r.up[self], node) EXCEPT !.size[self] = @ + 1]

\* Column.add_right
Column_add_right(r, self, node) ==
    [r EXCEPT !.left[node] = self,
              !.right[node] = r.right[self],
              !.left[r.right[self]] = node,
              !.right[self] = node]

\* Link.__init__: `if column is not None: column.add_bottom(self)`
Link_attach(r, column, id) ==
    IF column # NoneId THEN Column_add_bottom(r, column, id) ELSE r

\* Link.__init__ / LinkColour.__init__: a spacer has column None; a
\* LinkColour stores its colour (0 by default, given by the caller).
Link_init(r, k, column, colour) ==
    [Link_attach([DancingLink_init(r, k) EXCEPT !.column[r.n] = column],
                 column, r.n)
        EXCEPT !.colour[r.n] = IF k = "LinkColour" THEN colour ELSE @]

(***************************************************************************)
(* utility.py: create_network.  An optional argument is <<>> for None and  *)
(* <<v>> for the value v.                                                  *)
(***************************************************************************)
\* max(max(_) for _ in matrix)
MatrixMax(m) == Max({Max({m[r][c] : c \in 1..Len(m[r])}) : r \in 1..Len(m)})

\* max() of an empty sequence raises ValueError: an empty matrix, or a row
\* without entries
MatrixMaxRaises(m) == m = <<>> \/ \E r \in 1..Len(m) : m[r] = <<>>

\* the primary / secondary arithmetic and its ValueErrors
ItemCounts(width, p, s) ==
    IF p = <<>> /\ s = <<>>
    THEN [raised |-> FALSE, primary |-> width, secondary |-> 0]
    ELSE IF p = <<>>
    THEN IF s[1] < 0
         THEN [raised |-> TRUE, primary |-> 0, secondary |-> 0]
         ELSE [raised |-> FALSE, primary |-> width - s[1], secondary |-> s[1]]
    ELSE IF s = <<>>
    THEN IF p[1] < 0
         THEN [raised |-> TRUE, primary |-> 0, secondary |-> 0]
         ELSE [raised |-> FALSE, primary |-> p[1], secondary |-> width - p[1]]
    ELSE IF p[1] # width - s[1]
         THEN [raised |-> TRUE, primary |-> 0, secondary |-> 0]
         ELSE [raised |-> FALSE, primary |-> p[1], secondary |-> s[1]]

\* the header loop: every header is created, only the first `prim` are
\* spliced to the right of the previous one
RECURSIVE BuildHeaders(_, _, _, _, _)
\* the header loop without `if index < primary`: every header is spliced
BuildHeaders_all_spliced(st, index, width, prim, ColumnCls) ==
    IF index >= width THEN st
    ELSE Strict(st.reg,
             BuildHeaders(
                 [reg |-> Column_add_right(Column_init(st.reg, ColumnCls),
                                           st.left, st.reg.n),
                  left |-> st.reg.n,
                  headers |-> Append(st.headers, st.reg.n)],
                 index + 1, width, prim, ColumnCls))

BuildHeaders(st, index, width, prim, ColumnCls) ==
    IF index >= width THEN st
    ELSE Strict(st.reg,
             BuildHeaders(
                 [reg |-> IF index < prim
                          THEN Column_add_right(Column_init(st.reg, ColumnCls),
                                                st.left, st.reg.n)
                          ELSE Column_init(st.reg, ColumnCls),
                  left |-> st.reg.n,
                  headers |-> Append(st.headers, st.reg.n)],
                 index + 1, width, prim, ColumnCls))

\* kwargs['colour'] of a link: val - 1 in a secondary column of a coloured
\* matrix, the default 0 otherwise
LinkColourOf(val, index, prim, cfg) ==
    IF cfg.maxval # 1 /\ index >= prim THEN val - 1 ELSE 0

\* the inner loop over zip(row, headers): one link per nonzero value
RECURSIVE BuildCells(_, _, _, _, _, _)
BuildCells(st, row, headers, index, prim, cfg) ==
    IF index >= Len(row) \/ index >= Len(headers) THEN st
    ELSE IF row[index + 1] = 0
    THEN BuildCells(st, row, headers, index + 1, prim, cfg)
    ELSE Strict(st.reg,
             BuildCells(
                 [reg |-> Link_init(st.reg, cfg.LinkCls, headers[index + 1],
                                    LinkColourOf(row[index + 1], index, prim, cfg)),
                  first |-> IF st.first = NoneId THEN st.reg.n ELSE st.first,
                  link |-> st.reg.n],
                 row, headers, index + 1, prim, cfg))

\* spacer.down = first: the first node of the row for the last one
SpacerDown_first(st, spacer) ==
    [reg |-> [st.reg EXCEPT !.down[spacer] = st.first],
     first |-> st.first, link |-> st.link]

\* spacer.down = link, after the row of the spacer is built
SpacerDown(st, spacer) ==
    [reg |-> [st.reg EXCEPT !.down[spacer] = st.link],
     first |-> st.first, link |-> st.link]

\* the outer loop: a spacer before every row, its up the first node of the
\* previous row, its down the last link created so far
RECURSIVE BuildRows(_, _, _, _, _, _)
BuildRows(st, m, r, headers, prim, cfg) ==
    IF r > Len(m) THEN st
    ELSE Strict(st.reg,
             BuildRows(
                 SpacerDown(
                     BuildCells(
                         [reg |-> [Link_init(st.reg, cfg.LinkCls, NoneId, 0)
                                      EXCEPT !.up[st.reg.n] = st.first],
                          first |-> NoneId, link |-> st.link],
                         m[r], headers, 0, prim, cfg),
                     st.reg.n),
                 m, r + 1, headers, prim, cfg))

\* the classes create_network takes: the colour classes unless maxval is 1
NetworkClasses(m) ==
    [maxval |-> MatrixMax(m),
     ColumnCls |-> IF MatrixMax(m) = 1 THEN "Column" ELSE "ColumnColour",
     LinkCls |-> IF MatrixMax(m) = 1 THEN "Link" ELSE "LinkColour"]

\* the rows under the headers h
BuildBody(h, m, prim, cfg) ==
    BuildRows([reg |-> h.reg, first |-> NoneId, link |-> NoneId],
              m, 1, h.headers, prim, cfg)

\* the last spacer: up the first node of the last row, down None
LastSpacer(b, LinkCls) ==
    [Link_init(b.reg, LinkCls, NoneId, 0)
        EXCEPT !.up[b.reg.n] = b.first, !.down[b.reg.n] = NoneId]

\* a raise that comes after `root = ColumnCls()`: the root is registered
create_network_raise_late(r) ==
    [raised |-> TRUE, reg |-> Column_init(r, "Column"), root |-> NoneId]

\* the raises of create_network come before any node is created
create_network_raise(r) == [raised |-> TRUE, reg |-> r, root |-> NoneId]

\* create_network that links its headers behind the first node of the
\* registry instead of its own root
create_network_first_root(r, m, p, s) ==
    IF MatrixMaxRaises(m) \/ ItemCounts(Len(m[1]), p, s).raised
    THEN create_network_raise(r)
    ELSE [raised |-> FALSE,
          reg |-> LastSpacer(
                      BuildBody(
                          BuildHeaders(
                              [reg |-> Column_init(r, NetworkClasses(m).ColumnCls),
                               left |-> 0, headers |-> <<>>],
                              0, Len(m[1]), ItemCounts(Len(m[1]), p, s).primary,
                              NetworkClasses(m).ColumnCls),
                          m, ItemCounts(Len(m[1]), p, s).primary,
                          NetworkClasses(m)),
                      NetworkClasses(m).LinkCls),
          root |-> r.n]

\* create_network(matrix, None, p, s) on the registry r: the registry after
\* the call, the root returned, and whether the call raised
create_network(r, m, p, s) ==
    IF MatrixMaxRaises(m) \/ ItemCounts(Len(m[1]), p, s).raised
    THEN create_network_raise(r)
    ELSE [raised |-> FALSE,
          reg |-> LastSpacer(
                      BuildBody(
                          BuildHeaders(
                              [reg |-> Column_init(r, NetworkClasses(m).ColumnCls),
                               left |-> r.n, headers |-> <<>>],
                              0, Len(m[1]), ItemCounts(Len(m[1]), p, s).primary,
                              NetworkClasses(m).ColumnCls),
                          m, ItemCounts(Len(m[1]), p, s).primary,
                          NetworkClasses(m)),
                      NetworkClasses(m).LinkCls),
          root |-> r.n]

(***************************************************************************)
(* link.py: the reversible link operations.  Each takes the registry and   *)
(* the node it is called on and gives the registry after the call.         *)
(***************************************************************************)
\* Link.hide: the loop from `node` on
RECURSIVE Link_hide_loop(_, _, _)
\* hide that takes the nodes out of their columns and keeps the sizes
Link_hide_loop_keeps_size(r, self, node) ==
    IF node = self THEN r
    ELSE IF r.column[node] = NoneId
         THEN Link_hide_loop(r, self, r.up[node])
         ELSE Link_hide_loop([r EXCEPT !.down[r.up[node]] = r.down[node],
                                       !.up[r.down[node]] = r.up[node]],
                             self, node + 1)

Link_hide_loop(r, self, node) ==
    IF node = self THEN r
    ELSE LET column == r.column[node]
             up == r.up[node]
             down == r.down[node]
         IN IF column = NoneId
            THEN Link_hide_loop(r, self, up)
            ELSE LET r1 == [r EXCEPT !.down[up] = down,
                                     !.up[down] = up,
                                     !.size[column] = @ - 1]
                 IN Strict(r1, Link_hide_loop(r1, self, node + 1))

Link_hide(r, self) == Link_hide_loop(r, self, self + 1)

\* Link.unhide: the loop from `node` on
RECURSIVE Link_unhide_loop(_, _, _)
Link_unhide_loop(r, self, node) ==
    IF node = self THEN r
    ELSE LET column == r.column[node]
             up == r.up[node]
             down == r.down[node]
         IN IF column = NoneId
            THEN Link_unhide_loop(r, self, down)
            ELSE LET r1 == [r EXCEPT !.down[up] = node,
                                     !.up[down] = node,
                                     !.size[column] = @ + 1]
                 IN Strict(r1, Link_unhide_loop(r1, self, node - 1))

Link_unhide(r, self) == Link_unhide_loop(r, self, self - 1)

\* LinkColour.hide: a node whose colour is negative is passed over
RECURSIVE LinkColour_hide_loop(_, _, _)
\* hide that unlinks the nodes of negative colour as well
LinkColour_hide_loop_all(r, self, node) ==
    IF node = self THEN r
    ELSE IF r.column[node] = NoneId
         THEN LinkColour_hide_loop(r, self, r.up[node])
         ELSE LinkColour_hide_loop([r EXCEPT !.down[r.up[node]] = r.down[node],
                                             !.up[r.down[node]] = r.up[node],
                                             !.size[r.column[node]] = @ - 1],
                                   self, node + 1)

LinkColour_hide_loop(r, self, node) ==
    IF node = self THEN r
    ELSE LET column == r.column[node]
             up == r.up[node]
             down == r.down[node]
         IN IF column = NoneId
            THEN LinkColour_hide_loop(r, self, up)
            ELSE IF r.colour[node] >= 0
            THEN LET r1 == [r EXCEPT !.down[up] = down,
                                     !.up[down] = up,
                                     !.size[column] = @ - 1]
                 IN Strict(r1, LinkColour_hide_loop(r1, self, node + 1))
            ELSE LinkColour_hide_loop(r, self, node + 1)

LinkColour_hide(r, self) == LinkColour_hide_loop(r, self, self + 1)

\* LinkColour.unhide
RECURSIVE LinkColour_unhide_loop(_, _, _)
LinkColour_unhide_loop(r, self, node) ==
    IF node = self THEN r
    ELSE LET column == r.column[node]
             up == r.up[node]
             down == r.down[node]
         IN IF column = NoneId
            THEN LinkColour_unhide_loop(r, self, down)
            ELSE IF r.colour[node] >= 0
            THEN LET r1 == [r EXCEPT !.down[up] = node,
                                     !.up[down] = node,
                                     !.size[column] = @ + 1]
                 IN Strict(r1, LinkColour_unhide_loop(r1, self, node - 1))
            ELSE LinkColour_unhide_loop(r, self, node - 1)

LinkColour_unhide(r, self) == LinkColour_unhide_loop(r, self, self - 1)

\* node.hide() / node.unhide(): the method of the node's class
hide(r, node) ==
    IF r.kind[node] = "LinkColour" THEN LinkColour_hide(r, node)
    ELSE Link_hide(r, node)

\* uncover that does not unhide the rows of the column
unhide_nothing(r, node) == r

\* node.unhide(): the method of the node's class
unhide(r, node) ==
    IF r.kind[node] = "LinkColour" THEN LinkColour_unhide(r, node)
    ELSE Link_unhide(r, node)

\* Column.cover, the loop after `prev`: node = prev.down, node.hide()
RECURSIVE Column_cover_loop(_, _, _)
\* cover that hides the first row of the column only
Column_cover_loop_first_row(r, self, prev) ==
    IF r.down[prev] = self THEN r ELSE hide(r, r.down[prev])

Column_cover_loop(r, self, prev) ==
    IF r.down[prev] = self THEN r
    ELSE Strict(r, Column_cover_loop(hide(r, r.down[prev]), self,
                                     r.down[prev]))

\* cover that repairs `right` of the left neighbour only
Column_unlink_right_only(r, self) ==
    [r EXCEPT !.right[r.left[self]] = r.right[self]]

\* Column.cover: take the column out of the horizontal list
Column_unlink(r, self) ==
    [r EXCEPT !.right[r.left[self]] = r.right[self],
              !.left[r.right[self]] = r.left[self]]

\* Column.cover: hide every row of the column top to bottom, then take the
\* column out of the horizontal list
Column_cover(r, self) == Column_unlink(Column_cover_loop(r, self, self), self)

\* Column.uncover, the loop after `prev`: node = prev.up, node.unhide()
RECURSIVE Column_uncover_loop(_, _, _)
\* uncover that unhides top to bottom, in the order cover hides
RECURSIVE Column_uncover_loop_down(_, _, _)
Column_uncover_loop_down(r, self, prev) ==
    IF r.down[prev] = self THEN r
    ELSE Strict(r, Column_uncover_loop_down(unhide(r, r.down[prev]), self,
                                            r.down[prev]))

Column_uncover_loop(r, self, prev) ==
    IF r.up[prev] = self THEN r
    ELSE Strict(r, Column_uncover_loop(unhide(r, r.up[prev]), self,
                                       r.up[prev]))

\* uncover that leaves the column out of the horizontal list
Column_relink_forgotten(r, self) == r

\* Column.uncover: put the column back into the horizontal list
Column_relink(r, self) ==
    [r EXCEPT !.right[r.left[self]] = self,
              !.left[r.right[self]] = self]

\* Column.uncover: put the column back, then unhide bottom to top
Column_uncover(r, self) == Column_uncover_loop(Column_relink(r, self), self, self)

\* purify that marks every node of the column, whatever its colour
LinkColour_purify_node_any(r, colour, node) == [r EXCEPT !.colour[node] = -1]

\* LinkColour.purify, the body of the loop at `node`
LinkColour_purify_node(r, colour, node) ==
    IF r.colour[node] = colour THEN [r EXCEPT !.colour[node] = -1]
    ELSE hide(r, node)

\* LinkColour.purify, the loop after `prev`: node = prev.down
RECURSIVE LinkColour_purify_loop(_, _, _, _)
LinkColour_purify_loop(r, column, colour, prev) ==
    IF r.down[prev] = column THEN r
    ELSE Strict(r, LinkColour_purify_loop(
                       LinkColour_purify_node(r, colour, r.down[prev]),
                       column, colour, r.down[prev]))

\* purify that leaves the colour of the header as it is
LinkColour_purify_header_unset(r, self) ==
    LinkColour_purify_loop(r, r.column[self], r.colour[self], r.column[self])

\* LinkColour.purify: the header takes the colour, the nodes of the column
\* with the colour are marked -1, the rows of the others are hidden
LinkColour_purify(r, self) ==
    LinkColour_purify_loop([r EXCEPT !.colour[r.column[self]] = r.colour[self]],
                           r.column[self], r.colour[self], r.column[self])

\* LinkColour.unpurify, the body of the loop at `node`
LinkColour_unpurify_node(r, colour, node) ==
    IF r.colour[node] < 0 THEN [r EXCEPT !.colour[node] = colour]
    ELSE unhide(r, node)

\* LinkColour.unpurify, the loop after `prev`: node = prev.up
RECURSIVE LinkColour_unpurify_loop(_, _, _, _)
LinkColour_unpurify_loop(r, column, colour, prev) ==
    IF r.up[prev] = column THEN r
    ELSE Strict(r, LinkColour_unpurify_loop(
                       LinkColour_unpurify_node(r, colour, r.up[prev]),
                       column, colour, r.up[prev]))

\* LinkColour.unpurify: the colour is read from the node again
LinkColour_unpurify(r, self) ==
    LinkColour_unpurify_loop(r, r.column[self], r.colour[self], r.column[self])

\* commit that covers the column of a node whose colour is not positive
LinkColour_commit_covers_marked(r, self) ==
    IF r.colour[self] > 0 THEN LinkColour_purify(r, self)
    ELSE Column_cover(r, r.column[self])

\* LinkColour.commit: cover the column (colour 0) or purify (colour > 0);
\* nothing for a negative colour
LinkColour_commit(r, self) ==
    IF r.colour[self] = 0 THEN Column_cover(r, r.column[self])
    ELSE IF r.colour[self] > 0 THEN LinkColour_purify(r, self)
    ELSE r

\* LinkColour.uncommit
LinkColour_uncommit(r, self) ==
    IF r.colour[self] = 0 THEN Column_uncover(r, r.column[self])
    ELSE IF r.colour[self] > 0 THEN LinkColour_unpurify(r, self)
    ELSE r

(***************************************************************************)
(* utility.py: mrv.                                                        *)
(***************************************************************************)
RECURSIVE mrv_loop(_, _, _, _, _)
\* the loop with `<=` for `<`: the last item of minimum size wins
mrv_loop_last(r, root, j, retval, size) ==
    IF j = root THEN retval
    ELSE IF r.size[j] <= size
         THEN mrv_loop(r, root, r.right[j], j, r.size[j])
         ELSE mrv_loop(r, root, r.right[j], retval, size)

mrv_loop(r, root, j, retval, size) ==
    IF j = root THEN retval
    ELSE IF r.size[j] < size
         THEN mrv_loop(r, root, r.right[j], j, r.size[j])
         ELSE mrv_loop(r, root, r.right[j], retval, size)

\* mrv without the heuristic: the first item of the ring
mrv_leftmost(r, root) == r.right[root]

mrv(r, root) ==
    LET j == r.right[root]
    IN mrv_loop(r, root, j, root, r.size[j] + 1)

(***************************************************************************)
(* utility.py: print_solution.  The printed text is the list of its lines, *)
(* a line the list of the names printed.                                   *)
(***************************************************************************)
\* `while node.column: node += 1`: the spacer that ends the row of node
RECURSIVE RowEnd(_, _)
RowEnd(r, node) ==
    IF r.column[node] = NoneId THEN node ELSE RowEnd(r, node + 1)

\* the second loop: the nodes it prints, from `node` up to the next spacer
RECURSIVE RowLinks(_, _)
RowLinks(r, node) ==
    IF r.column[node] = NoneId THEN <<>>
    ELSE <<node>> \o RowLinks(r, node + 1)

\* a row printed from the node of the solution itself
RowStart_at_node(r, node) == node

\* `node = node.up` at the spacer: the first node of the row
RowStart(r, node) == r.up[RowEnd(r, node)]

\* print(node.column.name, end=" ") for every node of the loop
PrintedNames(r, nodes) == [k \in 1..Len(nodes) |-> r.name[r.column[nodes[k]]]]

\* print_solution: SolutionNotFound for an empty solution, a line per node
print_solution(r, solution) ==
    [raised |-> solution = <<>>,
     lines |-> [k \in 1..Len(solution) |->
                   PrintedNames(r, RowLinks(r, RowStart(r, solution[k])))]]

(***************************************************************************)
(* network.py: the array network.  A list is a function on 0 .. len-1.     *)
(* `top` is the list that the property `len` returns as well: top[i] is    *)
(* the size of header i, the header of option node i, and the spacer       *)
(* serial (0, -1, -2, ...) of spacer i.                                    *)
(***************************************************************************)
EmptyNetwork ==
    [ok |-> TRUE, cls |-> "Network", n |-> 0, primary |-> 0, spacer |-> 0,
     name |-> <<>>, left |-> <<>>, right |-> <<>>, top |-> <<>>,
     up |-> <<>>, down |-> <<>>, colour |-> <<>>, colour_map |-> <<>>,
     colour_map_inv |-> <<>>]

\* __init__ raised before its lists exist: there is no network (cls is the
\* class that was called)
NoNetwork == [EmptyNetwork EXCEPT !.ok = FALSE]

\* Network.add_column with an empty name
Network_add_column(nt) ==
    LET id == nt.n IN
    [nt EXCEPT !.n = id + 1,
               !.up = @ @@ (id :> id),
               !.down = @ @@ (id :> id),
               !.name = @ @@ (id :> id),
               !.top = @ @@ (id :> 0),
               !.left = @ @@ (id :> id),
               !.right = @ @@ (id :> id)]

\* Network._add_down
Network_add_down(nt, i, j) ==
    [nt EXCEPT !.up[j] = i,
               !.down[j] = nt.down[i],
               !.up[nt.down[i]] = j,
               !.down[i] = j]

\* Network._add_bottom
Network_add_bottom(nt, i, j) ==
    [Network_add_down(nt, nt.up[i], j) EXCEPT !.top[i] = @ + 1]

\* Network._add_right
Network_add_right(nt, i, j) ==
    [nt EXCEPT !.left[j] = i,
               !.right[j] = nt.right[i],
               !.left[nt.right[i]] = j,
               !.right[i] = j]

\* _add_bottom(i, j) called by add_link right after its appends.  It raises
\* IndexError at up[i] when i is past the end of the lists, and TypeError
\* (None is no list index) inside _add_down when up[i], or the down of
\* up[i], is None; the lists stay as the statements before the raise left
\* them, and no network is returned.
Network_add_bottom_or_raise(nt, i, j) ==
    IF i > j THEN [nt EXCEPT !.ok = FALSE]
    ELSE IF nt.up[i] = NoneId
    THEN [nt EXCEPT !.ok = FALSE, !.up[j] = NoneId]
    ELSE IF nt.down[nt.up[i]] = NoneId
    THEN [nt EXCEPT !.ok = FALSE, !.up[j] = nt.up[i], !.down[j] = NoneId]
    ELSE Network_add_bottom(nt, i, j)

\* Network.add_link: under column `top`, or a spacer when top is None
Network_add_link(nt, top) ==
    IF ~nt.ok THEN nt
    ELSE IF top # NoneId /\ top # 0
    THEN Network_add_bottom_or_raise(
             [nt EXCEPT !.n = nt.n + 1,
                        !.up = @ @@ (nt.n :> nt.n),
                        !.down = @ @@ (nt.n :> nt.n),
                        !.top = @ @@ (nt.n :> top)],
             top, nt.n)
    ELSE [nt EXCEPT !.n = nt.n + 1,
                    !.up = @ @@ (nt.n :> nt.n),
                    !.down = @ @@ (nt.n :> nt.n),
                    !.top = @ @@ (nt.n :> nt.spacer),
                    !.spacer = @ - 1]

\* the header loop of Network.__init__
RECURSIVE Network_headers(_, _, _, _)
Network_headers(st, index, width, prim) ==
    IF index >= width THEN st
    ELSE Strict(st.net,
             Network_headers(
                 [net |-> IF index < prim
                          THEN Network_add_right(Network_add_column(st.net),
                                                 st.left, st.net.n)
                          ELSE Network_add_column(st.net),
                  left |-> st.net.n],
                 index + 1, width, prim))

\* enumerate(row, 1): a link under column `index` for every nonzero value
RECURSIVE Network_cells(_, _, _)
Network_cells(st, row, index) ==
    IF index > Len(row) \/ ~st.net.ok THEN st
    ELSE IF row[index] = 0 THEN Network_cells(st, row, index + 1)
    ELSE Strict(st.net,
             Network_cells(
                 [net |-> Network_add_link(st.net, index),
                  first |-> IF st.first = NoneId THEN st.net.n ELSE st.first,
                  link |-> st.net.n],
                 row, index + 1))

\* self.down[spacer] = link, after the row of the spacer is built
Network_spacer_down(st, spacer) ==
    [net |-> IF st.net.ok THEN [st.net EXCEPT !.down[spacer] = st.link]
             ELSE st.net,
     first |-> st.first, link |-> st.link]

RECURSIVE Network_rows(_, _, _)
Network_rows(st, m, r) ==
    IF r > Len(m) \/ ~st.net.ok THEN st
    ELSE Strict(st.net,
             Network_rows(
                 Network_spacer_down(
                     Network_cells(
                         [net |-> [Network_add_link(st.net, NoneId)
                                      EXCEPT !.up[st.net.n] = st.first],
                          first |-> NoneId, link |-> st.link],
                         m[r], 1),
                     st.net.n),
                 m, r + 1))

\* the last spacer: up the first node of the last row, down None
Network_last_spacer(b) ==
    IF ~b.net.ok THEN b.net
    ELSE [Network_add_link(b.net, NoneId)
             EXCEPT !.up[b.net.n] = b.first, !.down[b.net.n] = NoneId]

\* the lists of a network with `prim` primary items
Network_build(m, prim) ==
    Network_last_spacer(
        Network_rows(
            [net |-> Network_headers(
                         [net |-> Network_add_column(
                                      [EmptyNetwork EXCEPT !.primary = prim]),
                          left |-> 0],
                         0, Len(m[1]), prim).net,
             first |-> NoneId, link |-> NoneId],
            m, 1))

\* Network.__init__(matrix, None, p): matrix[0] raises IndexError for an
\* empty matrix; an explicit primary must lie strictly between 0 and the
\* width
Network_init(m, p) ==
    IF m = <<>> THEN NoNetwork
    ELSE IF p # <<>> /\ ~(0 < p[1] /\ p[1] < Len(m[1])) THEN NoNetwork
    ELSE Network_build(m, IF p = <<>> THEN Len(m[1]) ELSE p[1])

\* list.insert(k, v) on a list of length len
ListInsert(f, len, k, v) ==
    [j \in 0..len |-> IF j < k THEN f[j] ELSE IF j = k THEN v ELSE f[j - 1]]

\* the option-node colours appended row by row, a 0 after every row
RECURSIVE Network_colours(_, _, _, _, _, _)
Network_colours(col, m, r, index, prim, cmap) ==
    IF r > Len(m) THEN col
    ELSE IF index >= Len(m[r])
    THEN Network_colours(Append(col, 0), m, r + 1, 0, prim, cmap)
    ELSE LET val == m[r][index + 1]
         IN IF val = 0
            THEN Network_colours(col, m, r, index + 1, prim, cmap)
            ELSE IF index < prim
            THEN Network_colours(Append(col, 0), m, r, index + 1, prim, cmap)
            ELSE Network_colours(
                     Append(col, IF val \in DOMAIN cmap THEN cmap[val] ELSE 0),
                     m, r, index + 1, prim, cmap)

\* the colours of the secondary columns other than 0 and 1
Network_colour_set(m, prim) ==
    UNION {{m[r][c] : c \in (prim + 1)..Len(m[r])} : r \in 1..Len(m)} \ {0, 1}

\* colour_map: the colours numbered from 1 in the iteration order of the
\* set, which is the increasing order for small integers
Network_colour_map(colours) ==
    [v \in colours |-> 1 + Cardinality({u \in colours : u < v})]

\* colour_map_inv: {value: key for key, value in colour_map.items()}
Network_colour_map_inv(cmap) ==
    [k \in {cmap[v] : v \in DOMAIN cmap} |->
        CHOOSE v \in DOMAIN cmap : cmap[v] = k]

\* the colour list as a function on 0 .. len-1
Network_colour_list(col) == [j \in 0..(Len(col) - 1) |-> col[j + 1]]

\* NetworkColour.__init__ after super().__init__: the secondary ring with
\* the entry `width + 1`, the colour map and the colour list
NetworkColour_extend(base, m, prim, width) ==
    IF ~base.ok THEN [base EXCEPT !.cls = "NetworkColour"] ELSE
    [base EXCEPT
        !.cls = "NetworkColour",
        !.left = ListInsert(base.left, width + 1, prim + 1, width + 1),
        !.right = [j \in 0..width |->
                      IF j >= prim + 1 /\ j < width + 1
                      THEN base.right[j] + 1 ELSE base.right[j]]
                  @@ (width + 1 :> prim + 1),
        !.colour_map = Network_colour_map(Network_colour_set(m, prim)),
        !.colour_map_inv = Network_colour_map_inv(
                               Network_colour_map(Network_colour_set(m, prim))),
        !.colour = Network_colour_list(
                       Network_colours(
                           [j \in 1..(width + 2) |->
                               IF j <= width + 1 THEN NoneColour ELSE 0],
                           m, 1, 0, prim,
                           Network_colour_map(Network_colour_set(m, prim))))]

\* NetworkColour.__init__(matrix, None, p).  `primary + 1` raises for None,
\* after super().__init__ built the lists.
NetworkColour_init(m, p) ==
    IF m = <<>> THEN [NoNetwork EXCEPT !.cls = "NetworkColour"]
    ELSE IF p = <<>>
    THEN [Network_init(m, p) EXCEPT !.ok = FALSE, !.cls = "NetworkColour"]
    ELSE IF ~(0 < p[1] /\ p[1] < Len(m[1]))
    THEN [NoNetwork EXCEPT !.cls = "NetworkColour"]
    ELSE NetworkColour_extend(Network_build(m, p[1]), m, p[1], Len(m[1]))

\* Network.hide
RECURSIVE Network_hide_loop(_, _, _)
Network_hide_loop(nt, p, q) ==
    IF q = p THEN nt
    ELSE LET x == nt.top[q]
             u == nt.up[q]
             d == nt.down[q]
         IN IF x <= 0
            THEN Network_hide_loop(nt, p, u)
            ELSE LET n1 == [nt EXCEPT !.down[u] = d, !.up[d] = u,
                                      !.top[x] = @ - 1]
                 IN Strict(n1, Network_hide_loop(n1, p, q + 1))

\* hide that takes p out of its column as well
Network_hide_with_self(nt, p) ==
    Network_hide_loop([nt EXCEPT !.down[nt.up[p]] = nt.down[p],
                                 !.up[nt.down[p]] = nt.up[p],
                                 !.top[nt.top[p]] = @ - 1],
                      p, p + 1)

\* Network.hide
Network_hide(nt, p) == Network_hide_loop(nt, p, p + 1)

\* Network.unhide
RECURSIVE Network_unhide_loop(_, _, _)

\* unhide that puts the node back without counting it in len
Network_unhide_loop_no_len(nt, p, q) ==
    IF q = p THEN nt
    ELSE IF nt.top[q] <= 0
    THEN Network_unhide_loop(nt, p, nt.down[q])
    ELSE Network_unhide_loop([nt EXCEPT !.down[nt.up[q]] = q,
                                        !.up[nt.down[q]] = q],
                             p, q - 1)

Network_unhide_loop(nt, p, q) ==
    IF q = p THEN nt
    ELSE LET x == nt.top[q]
             u == nt.up[q]
             d == nt.down[q]
         IN IF x <= 0
            THEN Network_unhide_loop(nt, p, d)
            ELSE LET n1 == [nt EXCEPT !.down[u] = q, !.up[d] = q,
                                      !.top[x] = @ + 1]
                 IN Strict(n1, Network_unhide_loop(n1, p, q - 1))

Network_unhide(nt, p) == Network_unhide_loop(nt, p, p - 1)

\* NetworkColour.hide
RECURSIVE NetworkColour_hide_loop(_, _, _)
NetworkColour_hide_loop(nt, p, q) ==
    IF q = p THEN nt
    ELSE LET x == nt.top[q]
             u == nt.up[q]
             d == nt.down[q]
         IN IF x <= 0
            THEN NetworkColour_hide_loop(nt, p, u)
            ELSE IF nt.colour[q] >= 0
            THEN LET n1 == [nt EXCEPT !.down[u] = d, !.up[d] = u,
                                      !.top[x] = @ - 1]
                 IN Strict(n1, NetworkColour_hide_loop(n1, p, q + 1))
            ELSE NetworkColour_hide_loop(nt, p, q + 1)

NetworkColour_hide(nt, p) == NetworkColour_hide_loop(nt, p, p + 1)

\* NetworkColour.unhide
RECURSIVE NetworkColour_unhide_loop(_, _, _)
NetworkColour_unhide_loop(nt, p, q) ==
    IF q = p THEN nt
    ELSE LET x == nt.top[q]
             u == nt.up[q]
             d == nt.down[q]
         IN IF x <= 0
            THEN NetworkColour_unhide_loop(nt, p, d)
            ELSE IF nt.colour[q] >= 0
            THEN LET n1 == [nt EXCEPT !.down[u] = q, !.up[d] = q,
                                      !.top[x] = @ + 1]
                 IN Strict(n1, NetworkColour_unhide_loop(n1, p, q - 1))
            ELSE NetworkColour_unhide_loop(nt, p, q - 1)

NetworkColour_unhide(nt, p) == NetworkColour_unhide_loop(nt, p, p - 1)

\* self.hide(p) / self.unhide(p): the method of the network's class
net_hide(nt, p) ==
    IF nt.cls = "NetworkColour" THEN NetworkColour_hide(nt, p)
    ELSE Network_hide(nt, p)

net_unhide(nt, p) ==
    IF nt.cls = "NetworkColour" THEN NetworkColour_unhide(nt, p)
    ELSE Network_unhide(nt, p)

\* Network.cover, the loop after `prev`: p = down[prev], hide(p)
RECURSIVE Network_cover_loop(_, _, _)
Network_cover_loop(nt, i, prev) ==
    IF nt.down[prev] = i THEN nt
    ELSE Strict(nt, Network_cover_loop(net_hide(nt, nt.down[prev]), i,
                                       nt.down[prev]))

\* Network.cover: take the item out of the horizontal list
Network_unlink(nt, i) ==
    [nt EXCEPT !.right[nt.left[i]] = nt.right[i],
               !.left[nt.right[i]] = nt.left[i]]

\* Network.cover
Network_cover(nt, i) == Network_unlink(Network_cover_loop(nt, i, i), i)

\* Network.uncover, the loop after `prev`: p = up[prev], unhide(p)
RECURSIVE Network_uncover_loop(_, _, _)
Network_uncover_loop(nt, i, prev) ==
    IF nt.up[prev] = i THEN nt
    ELSE Strict(nt, Network_uncover_loop(net_unhide(nt, nt.up[prev]), i,
                                         nt.up[prev]))

\* an uncover that restores only the link of the left neighbour
Network_relink_right_only(nt, i) ==
    [nt EXCEPT !.right[nt.left[i]] = i]

\* Network.uncover: put the item back into the horizontal list
Network_relink(nt, i) ==
    [nt EXCEPT !.right[nt.left[i]] = i,
               !.left[nt.right[i]] = i]

\* Network.uncover
Network_uncover(nt, i) == Network_uncover_loop(Network_relink(nt, i), i, i)

\* NetworkColour.purify, the body of the loop at q
NetworkColour_purify_node(nt, c, q) ==
    IF nt.colour[q] = c THEN [nt EXCEPT !.colour[q] = -1]
    ELSE net_hide(nt, q)

\* NetworkColour.purify, the loop after `prev`: q = down[prev]
RECURSIVE NetworkColour_purify_loop(_, _, _, _)
NetworkColour_purify_loop(nt, i, c, prev) ==
    IF nt.down[prev] = i THEN nt
    ELSE Strict(nt, NetworkColour_purify_loop(
                        NetworkColour_purify_node(nt, c, nt.down[prev]),
                        i, c, nt.down[prev]))

\* NetworkColour.purify
NetworkColour_purify(nt, p) ==
    NetworkColour_purify_loop([nt EXCEPT !.colour[nt.top[p]] = nt.colour[p]],
                              nt.top[p], nt.colour[p], nt.top[p])

\* NetworkColour.unpurify, the body of the loop at q
NetworkColour_unpurify_node(nt, c, q) ==
    IF nt.colour[q] < 0 THEN [nt EXCEPT !.colour[q] = c]
    ELSE net_unhide(nt, q)

\* NetworkColour.unpurify, the loop after `prev`: q = up[prev]
RECURSIVE NetworkColour_unpurify_loop(_, _, _, _)
NetworkColour_unpurify_loop(nt, i, c, prev) ==
    IF nt.up[prev] = i THEN nt
    ELSE Strict(nt, NetworkColour_unpurify_loop(
                        NetworkColour_unpurify_node(nt, c, nt.up[prev]),
                        i, c, nt.up[prev]))

\* NetworkColour.unpurify
NetworkColour_unpurify(nt, p) ==
    NetworkColour_unpurify_loop(nt, nt.top[p], nt.colour[p], nt.top[p])

\* Network.commit is cover(j); NetworkColour.commit looks at the colour
Network_commit(nt, p, j) ==
    IF nt.cls = "NetworkColour"
    THEN IF nt.colour[p] = 0 THEN Network_cover(nt, j)
         ELSE IF nt.colour[p] > 0 THEN NetworkColour_purify(nt, p)
         ELSE nt
    ELSE Network_cover(nt, j)

\* Network.uncommit is uncover(j); NetworkColour.uncommit looks at the colour
Network_uncommit(nt, p, j) ==
    IF nt.cls = "NetworkColour"
    THEN IF nt.colour[p] = 0 THEN Network_uncover(nt, j)
         ELSE IF nt.colour[p] > 0 THEN NetworkColour_unpurify(nt, p)
         ELSE nt
    ELSE Network_uncover(nt, j)

(***************************************************************************)
(* algorithm.py: xc and xcc (and operations.py: ecx, the same text as xc). *)
(* The recursion of the generator is the explicit stack; a frame holds the *)
(* locals i, x and node of one level.                                      *)
(***************************************************************************)
Top == stack[Len(stack)]

\* the inner loop of X5 at a spacer: node = node.up
FwdNode(r, node) == IF r.column[node] = NoneId THEN r.up[node] ELSE node

\* the inner loop of X6 at a spacer: node = node.down
BwdNode(r, node) == IF r.column[node] = NoneId THEN r.down[node] ELSE node

\* the node X5's loop starts from: x + 1 (the loop does not run when x = i)
FirstNode(i, x) == IF x = i THEN NoneId ELSE x + 1

\* X5 without its loop body: the other items of the option stay uncovered
CommitNode_skipped(r, node) == r

\* what X5 applies to a node of the chosen option
CommitNode(r, node) ==
    IF algo = "xcc" THEN LinkColour_commit(r, node)
    ELSE Column_cover(r, r.column[node])

\* X6 without its loop body: the other items of the option stay committed
UncommitNode_skipped(r, node) == r

\* what X6 applies to a node of the chosen option
UncommitNode(r, node) ==
    IF algo = "xcc" THEN LinkColour_uncommit(r, node)
    ELSE Column_uncover(r, r.column[node])

\* xcc calls node.commit(), a method only LinkColour has
HasCommit(r, node) == algo # "xcc" \/ r.kind[node] = "LinkColour"

\* the generator of level Len(stk) + 1 returned: its caller goes on at X6,
\* and the outermost generator is exhausted
Return(stk) ==
    IF stk = <<>>
    THEN pc' = "done" /\ stack' = stk
    ELSE /\ pc' = "X6"
         /\ stack' = [stk EXCEPT ![Len(stk)].node = stk[Len(stk)].x - 1]

\* X2, all items covered: yield sol
X2_Visit ==
    /\ pc = "X2"
    /\ reg.right[netroot] = netroot
    /\ out' = Append(out, sol)
    /\ pc' = "yield"
    /\ UNCHANGED <<matrix, primary, algo, reg, net, built, built_net, stack,
                   sol, choices, branches, undo, netroot, given, raised>>

\* X8 that enters the level again instead of returning
X8_Leave_again ==
    /\ pc = "yield"
    /\ pc' = "X2"
    /\ UNCHANGED <<matrix, primary, algo, reg, net, built, built_net, stack,
                   sol, choices, branches, out, undo, netroot, given, raised>>

\* X8: the caller asks for the next solution, the generator returns
X8_Leave ==
    /\ pc = "yield"
    /\ Return(stack)
    /\ UNCHANGED <<matrix, primary, algo, reg, net, built, built_net, sol,
                   choices, branches, out, undo, netroot, given, raised>>

\* a stop that unwinds the levels as a drained search does
X8_Stop_unwound ==
    /\ pc = "yield"
    /\ pc' = "stopped"
    /\ reg' = built
    /\ UNCHANGED <<matrix, primary, algo, net, built, built_net, stack, sol,
                   choices, branches, out, undo, netroot, given, raised>>

\* the caller stops pulling after `yield sol`: the generators stay suspended
\* (and are closed) at the yield; there is no try/finally in xc or xcc, so
\* no statement after the yield runs
X8_Stop ==
    /\ pc = "yield"
    /\ pc' = "stopped"
    /\ UNCHANGED <<matrix, primary, algo, reg, net, built, built_net, stack,
                   sol, choices, branches, out, undo, netroot, given, raised>>

\* X3 and X4 that count the first choice as 0
X3_Choose_from_zero ==
    /\ pc = "X2"
    /\ reg.right[netroot] # netroot
    /\ LET i == mrv(reg, netroot)
       IN /\ reg' = Column_cover(reg, i)
          /\ branches' = Append(branches, reg'.size[i])
          /\ sol' = Append(sol, reg'.down[i])
          /\ choices' = Append(choices, 0)
          /\ stack' = Append(stack, [i |-> i, x |-> reg'.down[i],
                                     node |-> FirstNode(i, reg'.down[i])])
    /\ pc' = "X5"
    /\ UNCHANGED <<matrix, primary, algo, net, built, built_net, out, undo, netroot, given, raised>>

\* X3 and X4: choose item i, cover it, enter the level
X3_Choose ==
    /\ pc = "X2"
    /\ reg.right[netroot] # netroot
    /\ LET i == mrv(reg, netroot)
       IN /\ reg' = Column_cover(reg, i)
          /\ branches' = Append(branches, reg'.size[i])
          /\ sol' = Append(sol, reg'.down[i])
          /\ choices' = Append(choices, 1)
          /\ stack' = Append(stack, [i |-> i, x |-> reg'.down[i],
                                     node |-> FirstNode(i, reg'.down[i])])
    /\ pc' = "X5"
    /\ UNCHANGED <<matrix, primary, algo, net, built, built_net, out, undo, netroot, given, raised>>

\* X5: commit (cover) the next other item of the option that contains x
X5_Commit ==
    /\ pc = "X5"
    /\ Top.x # Top.i
    /\ LET node == FwdNode(reg, Top.node)
       IN /\ node # Top.x
          /\ HasCommit(reg, node)
          /\ reg' = CommitNode(reg, node)
          /\ stack' = [stack EXCEPT ![Len(stack)].node = node + 1]
    /\ UNCHANGED <<matrix, primary, algo, net, built, built_net, pc, sol,
                   choices, branches, out, undo, netroot, given, raised>>

\* X5 in xcc on a network of plain Link nodes: node.commit() raises
X5_Raise ==
    /\ pc = "X5"
    /\ Top.x # Top.i
    /\ LET node == FwdNode(reg, Top.node)
       IN node # Top.x /\ ~HasCommit(reg, node)
    /\ pc' = "error"
    /\ UNCHANGED <<matrix, primary, algo, reg, net, built, built_net, stack,
                   sol, choices, branches, out, undo, netroot, given, raised>>

\* X5, every other item committed: recurse into the next level
X5_Recurse ==
    /\ pc = "X5"
    /\ Top.x # Top.i
    /\ FwdNode(reg, Top.node) = Top.x
    /\ pc' = "X2"
    /\ stack' = [stack EXCEPT ![Len(stack)].node = Top.x]
    /\ UNCHANGED <<matrix, primary, algo, reg, net, built, built_net, sol,
                   choices, branches, out, undo, netroot, given, raised>>

\* X6 whose loop does not get on: nothing is uncommitted, node stays
X6_Uncommit_spins ==
    /\ pc = "X6"
    /\ BwdNode(reg, Top.node) # Top.x
    /\ UNCHANGED vars

\* X6: uncommit (uncover) the items of the option in the reverse order
X6_Uncommit ==
    /\ pc = "X6"
    /\ LET node == BwdNode(reg, Top.node)
       IN /\ node # Top.x
          /\ reg' = UncommitNode(reg, node)
          /\ stack' = [stack EXCEPT ![Len(stack)].node = node - 1]
    /\ UNCHANGED <<matrix, primary, algo, net, built, built_net, pc, sol,
                   choices, branches, out, undo, netroot, given, raised>>

\* X6 that gives up the item after its first option: x = i
X6_Next_first_only ==
    /\ pc = "X6"
    /\ BwdNode(reg, Top.node) = Top.x
    /\ stack' = [stack EXCEPT ![Len(stack)].x = Top.i,
                              ![Len(stack)].node = NoneId]
    /\ sol' = [sol EXCEPT ![Len(sol)] = Top.i]
    /\ choices' = [choices EXCEPT ![Len(choices)] = @ + 1]
    /\ pc' = "X5"
    /\ UNCHANGED <<matrix, primary, algo, reg, net, built, built_net,
                   branches, out, undo, netroot, given, raised>>

\* X6, all uncommitted: x = x.down, sol[-1] = x, choices[-1] += 1
X6_Next ==
    /\ pc = "X6"
    /\ BwdNode(reg, Top.node) = Top.x
    /\ LET x == reg.down[Top.x]
       IN /\ stack' = [stack EXCEPT ![Len(stack)].x = x,
                                    ![Len(stack)].node = FirstNode(Top.i, x)]
          /\ sol' = [sol EXCEPT ![Len(sol)] = x]
    /\ choices' = [choices EXCEPT ![Len(choices)] = @ + 1]
    /\ pc' = "X5"
    /\ UNCHANGED <<matrix, primary, algo, reg, net, built, built_net,
                   branches, out, undo, netroot, given, raised>>

\* X7: every option of i tried: uncover i, leave the level
X7_Backtrack ==
    /\ pc = "X5"
    /\ Top.x = Top.i
    /\ reg' = Column_uncover(reg, Top.i)
    /\ sol' = SubSeq(sol, 1, Len(sol) - 1)
    /\ choices' = SubSeq(choices, 1, Len(choices) - 1)
    /\ branches' = SubSeq(branches, 1, Len(branches) - 1)
    /\ Return(SubSeq(stack, 1, Len(stack) - 1))
    /\ UNCHANGED <<matrix, primary, algo, net, built, built_net, out, undo, netroot, given, raised>>

SearchNext ==
    \/ X2_Visit
    \/ X8_Leave
    \/ X8_Stop
    \/ X3_Choose
    \/ X5_Commit
    \/ X5_Recurse
    \/ X6_Uncommit
    \/ X6_Next
    \/ X7_Backtrack

(***************************************************************************)
(* The inputs: matrices of at most MaxRows rows and MaxCols columns.       *)
(***************************************************************************)
Shapes == {<<h, w>> : h \in 1..MaxRows, w \in 1..MaxCols}

\* 0/1 matrices
Matrices01 ==
    UNION {[1..s[1] -> [1..s[2] -> 0..1]] : s \in Shapes}

\* the state in which a generator starts on the network of m with p primary
\* items
Started(nw, m, p, a) ==
       /\ matrix = m
       /\ primary = p
       /\ algo = a
       /\ reg = nw.reg
       /\ built = nw.reg
       /\ netroot = nw.root
       /\ given = [primary |-> <<p>>, secondary |-> <<>>]
       /\ raised = nw.raised
       /\ net = <<>>
       /\ built_net = <<>>
       /\ pc = "X2"
       /\ stack = <<>>
       /\ sol = <<>>
       /\ choices = <<>>
       /\ branches = <<>>
       /\ out = <<>>
       /\ undo = <<>>

SearchInit(m, p, a) ==
    Started(create_network(EmptyRegistry, m, <<p>>, <<>>), m, p, a)

InitXC ==
    \E m \in Matrices01 : \E p \in 0..Len(m[1]) : SearchInit(m, p, "xc")

SpecXC == InitXC /\ [][SearchNext]_vars

\* xcc: the search steps, and the AttributeError of node.commit()
XccNext ==
    \/ SearchNext
    \/ X5_Raise

\* coloured matrices: 0/1 in the primary columns, 0, 1 or a colour token in
\* the secondary columns, which are the last ones
ColouredRows(w, p) ==
    {row \in [1..w -> 0..(MaxColour + 1)] : \A c \in 1..p : row[c] <= 1}

ColouredShapes(rows, cols) ==
    {<<h, w, w - sec>> : h \in 1..rows, w \in 1..cols, sec \in 0..MaxSecondary}

InitXCC ==
    \E sh \in ColouredShapes(XccRows, XccCols) :
        /\ sh[3] >= 0
        /\ \E m \in [1..sh[1] -> ColouredRows(sh[2], sh[3])] :
               SearchInit(m, sh[3], "xcc")

SpecXCC == InitXCC /\ [][XccNext]_vars

\* either generator, on the networks of either family of matrices
InitSearch == InitXC \/ InitXCC

SpecSearch == InitSearch /\ [][XccNext]_vars

\* the caller pulls the generator until it is exhausted (`for sol in xc(root)`,
\* `list(xcc(root))`): it never stops at a yield, and the one thread that
\* runs the generator takes every step that can be taken
PulledNext ==
    \/ X2_Visit
    \/ X8_Leave
    \/ X3_Choose
    \/ X5_Commit
    \/ X5_Raise
    \/ X5_Recurse
    \/ X6_Uncommit
    \/ X6_Next
    \/ X7_Backtrack

\* xc on the 0/1 matrices, xcc on the coloured matrices of at most
\* PulledRows rows and PulledCols columns
InitPulled ==
    \/ InitXC
    \/ \E sh \in ColouredShapes(PulledRows, PulledCols) :
           /\ sh[3] >= 0
           /\ \E m \in [1..sh[1] -> ColouredRows(sh[2], sh[3])] :
                  SearchInit(m, sh[3], "xcc")

SpecPulled == InitPulled /\ [][PulledNext]_vars /\ WF_vars(PulledNext)

(***************************************************************************)
(* The link operations called directly on a freshly built network, on the  *)
(* linked nodes and on the array network of the same matrix, and then      *)
(* reverted by the matching inverse calls in the reverse order.  `out`     *)
(* keeps the calls made, `undo` those not yet reverted.                    *)
(***************************************************************************)
\* the item headers and the option nodes of the network
Items(r) == {id \in 0..(r.n - 1) :
                r.kind[id] \in {"Column", "ColumnColour"} /\ id # netroot}

Options(r) == {id \in 0..(r.n - 1) :
                  r.kind[id] \in {"Link", "LinkColour"} /\ r.column[id] # NoneId}

\* the network class the caller takes for the matrix: NetworkColour where
\* create_network takes the colour classes; primary is passed as given,
\* None for "all items" to Network
ArrayNetwork(m, p) ==
    IF MatrixMax(m) # 1 THEN NetworkColour_init(m, <<p>>)
    ELSE Network_init(m, IF p = Len(m[1]) THEN <<>> ELSE <<p>>)

\* the call on the linked nodes
Apply(r, op, id) ==
    CASE op = "cover" -> Column_cover(r, id)
      [] op = "hide" -> hide(r, id)
      [] op = "purify" -> LinkColour_purify(r, id)
      [] op = "commit" -> LinkColour_commit(r, id)

\* the matching inverse call on the linked nodes
Revert(r, op, id) ==
    CASE op = "cover" -> Column_uncover(r, id)
      [] op = "hide" -> unhide(r, id)
      [] op = "purify" -> LinkColour_unpurify(r, id)
      [] op = "commit" -> LinkColour_uncommit(r, id)

\* the same call on the array network, when there is one
ApplyNet(nt, op, id) ==
    IF ~nt.ok THEN nt
    ELSE CASE op = "cover" -> Network_cover(nt, id)
           [] op = "hide" -> net_hide(nt, id)
           [] op = "purify" -> NetworkColour_purify(nt, id)
           [] op = "commit" -> Network_commit(nt, id, nt.top[id])

RevertNet(nt, op, id) ==
    IF ~nt.ok THEN nt
    ELSE CASE op = "cover" -> Network_uncover(nt, id)
           [] op = "hide" -> net_unhide(nt, id)
           [] op = "purify" -> NetworkColour_unpurify(nt, id)
           [] op = "commit" -> Network_uncommit(nt, id, nt.top[id])

Call(op, id) ==
    /\ pc = "do"
    /\ Len(undo) < MaxOps
    /\ reg' = Apply(reg, op, id)
    /\ net' = ApplyNet(net, op, id)
    /\ undo' = Append(undo, [op |-> op, id |-> id])
    /\ out' = Append(out, [op |-> op, id |-> id])
    /\ UNCHANGED <<matrix, primary, algo, built, built_net, pc, stack, sol,
                   choices, branches, netroot, given, raised>>

Do_cover == \E i \in Items(reg) : Call("cover", i)

Do_hide == \E p \in Options(reg) : Call("hide", p)

\* purify is a method of LinkColour, called for a positive colour
Do_purify ==
    \E p \in Options(reg) :
        /\ reg.kind[p] = "LinkColour"
        /\ reg.colour[p] > 0
        /\ Call("purify", p)

Do_commit ==
    \E p \in Options(reg) :
        /\ reg.kind[p] = "LinkColour"
        /\ Call("commit", p)

\* the inverse of the last call not yet reverted
Undo ==
    /\ pc \in {"do", "undo"}
    /\ undo # <<>>
    /\ reg' = Revert(reg, undo[Len(undo)].op, undo[Len(undo)].id)
    /\ net' = RevertNet(net, undo[Len(undo)].op, undo[Len(undo)].id)
    /\ undo' = SubSeq(undo, 1, Len(undo) - 1)
    /\ pc' = IF Len(undo) = 1 THEN "done" ELSE "undo"
    /\ UNCHANGED <<matrix, primary, algo, built, built_net, stack, sol,
                   choices, branches, out, netroot, given, raised>>

OpsNext ==
    \/ Do_cover
    \/ Do_hide
    \/ Do_purify
    \/ Do_commit
    \/ Undo

OpsStarted(nw, an, m, p) ==
       /\ matrix = m
       /\ primary = p
       /\ algo = "ops"
       /\ reg = nw.reg
       /\ built = nw.reg
       /\ netroot = nw.root
       /\ given = [primary |-> <<p>>, secondary |-> <<>>]
       /\ raised = nw.raised
       /\ net = an
       /\ built_net = an
       /\ pc = "do"
       /\ stack = <<>>
       /\ sol = <<>>
       /\ choices = <<>>
       /\ branches = <<>>
       /\ out = <<>>
       /\ undo = <<>>

OpsInit(m, p) ==
    OpsStarted(create_network(EmptyRegistry, m, <<p>>, <<>>),
               ArrayNetwork(m, p), m, p)

InitOps ==
    \E sh \in ColouredShapes(OpsRows, OpsCols) :
        /\ sh[3] >= 0
        /\ \E m \in [1..sh[1] -> ColouredRows(sh[2], sh[3])] : OpsInit(m, sh[3])

SpecOps == InitOps /\ [][OpsNext]_vars

(***************************************************************************)
(* The same calls on both implementations: any cover, uncover, hide or     *)
(* unhide, in any order, on the linked nodes built by create_network and   *)
(* on the lists of Network built from the same matrix.  `out` keeps the    *)
(* calls made.                                                             *)
(***************************************************************************)
\* the call on the linked nodes: Column.cover / uncover, Link.hide / unhide
LinkCall(r, op, id) ==
    CASE op = "cover" -> Column_cover(r, id)
      [] op = "uncover" -> Column_uncover(r, id)
      [] op = "hide" -> hide(r, id)
      [] op = "unhide" -> unhide(r, id)

\* the call on the lists: Network.cover / uncover / hide / unhide
ListCall(nt, op, id) ==
    CASE op = "cover" -> Network_cover(nt, id)
      [] op = "uncover" -> Network_uncover(nt, id)
      [] op = "hide" -> Network_hide(nt, id)
      [] op = "unhide" -> Network_unhide(nt, id)

SameCall(op, id) ==
    /\ pc = "do"
    /\ Len(out) < MaxCalls
    /\ reg' = LinkCall(reg, op, id)
    /\ net' = ListCall(net, op, id)
    /\ out' = Append(out, [op |-> op, id |-> id])
    /\ UNCHANGED <<matrix, primary, algo, built, built_net, pc, stack, sol,
                   choices, branches, undo, netroot, given, raised>>

Same_cover == \E i \in Items(reg) : SameCall("cover", i)

Same_uncover == \E i \in Items(reg) : SameCall("uncover", i)

Same_hide == \E p \in Options(reg) : SameCall("hide", p)

Same_unhide == \E p \in Options(reg) : SameCall("unhide", p)

SameNext ==
    \/ Same_cover
    \/ Same_uncover
    \/ Same_hide
    \/ Same_unhide

\* create_network(matrix, primary=p) and Network(matrix, None, p), with
\* None for p where Network takes no explicit count
SameInit(m, p) ==
    OpsStarted(create_network(EmptyRegistry, m, <<p>>, <<>>),
               Network_init(m, IF p = Len(m[1]) THEN <<>> ELSE <<p>>), m, p)

InitSame ==
    \E sh \in ColouredShapes(SameRows, SameCols) :
        /\ sh[3] >= 1
        /\ \E m \in [1..sh[1] -> ColouredRows(sh[2], sh[3])] : SameInit(m, sh[3])

SpecSame == InitSame /\ [][SameNext]_vars

(***************************************************************************)
(* link.py: delete.  The nodes outlive the registry (the caller holds the  *)
(* root), so the state of a call is the nodes `r` with their fields and    *)
(* the list `instances` of the ids in DancingLink._instances.  Python      *)
(* gives up with RecursionError when the calls nest too deep.              *)
(***************************************************************************)
\* Column.delete: left = right = None;  Link.delete: column = None
Own_delete(r, self) ==
    IF r.kind[self] \in {"Column", "ColumnColour"}
    THEN [r EXCEPT !.left[self] = NoneId, !.right[self] = NoneId]
    ELSE [r EXCEPT !.column[self] = NoneId]

\* DancingLink.delete, the end: up = down = None
Unlink_delete(st, self) ==
    [st EXCEPT !.r.up[self] = NoneId, !.r.down[self] = NoneId]

RECURSIVE node_delete(_, _, _)
RECURSIVE DancingLink_delete_loop(_, _, _, _)
\* `for node in DancingLink._instances[1:]: node.delete()`, from the k-th
\* entry of the copy `nodes` that the slice made
DancingLink_delete_loop(st, nodes, k, depth) ==
    IF k > Len(nodes) \/ st.raised THEN st
    ELSE Strict(st.r,
             DancingLink_delete_loop(node_delete(st, nodes[k], depth),
                                     nodes, k + 1, depth))

\* DancingLink.delete: a node whose up and down are itself is taken for the
\* root, deletes every node after the first of the registry and clears it
DancingLink_delete(st, self, depth) ==
    IF st.r.up[self] = self /\ st.r.down[self] = self
    THEN LET after == DancingLink_delete_loop(
                          st, SubSeq(st.instances, 2, Len(st.instances)),
                          1, depth + 1)
         IN Strict(after.r,
                IF after.raised THEN after
                ELSE Unlink_delete([after EXCEPT !.instances = <<>>], self))
    ELSE Unlink_delete(st, self)

\* node.delete(): Column.delete or Link.delete, then DancingLink.delete;
\* RecursionError beyond MaxDepth nested calls
node_delete(st, self, depth) ==
    IF depth > MaxDepth THEN [st EXCEPT !.raised = TRUE]
    ELSE DancingLink_delete([st EXCEPT !.r = Own_delete(st.r, self)],
                            self, depth)

\* root.delete() by the caller
root_delete(r, instances, root) ==
    node_delete([r |-> r, instances |-> instances, raised |-> FALSE], root, 1)

\* the caller discards the network
Root_delete ==
    /\ pc = "built"
    /\ LET st == root_delete(reg, out, netroot)
       IN /\ reg' = st.r
          /\ out' = st.instances
          /\ pc' = IF st.raised THEN "error" ELSE "done"
    /\ UNCHANGED <<matrix, primary, algo, net, built, built_net, stack, sol,
                   choices, branches, undo, netroot, given, raised>>

DeleteNext == Root_delete

\* the network right after create_network returned it
DeleteStarted(nw, m, p) ==
       /\ matrix = m
       /\ primary = p
       /\ algo = "delete"
       /\ ~nw.raised
       /\ reg = nw.reg
       /\ built = nw.reg
       /\ netroot = nw.root
       /\ given = [primary |-> <<p>>, secondary |-> <<>>]
       /\ raised = nw.raised
       /\ net = <<>>
       /\ built_net = <<>>
       /\ pc = "built"
       /\ stack = <<>>
       /\ sol = <<>>
       /\ choices = <<>>
       /\ branches = <<>>
       /\ out = [k \in 1..nw.reg.n |-> k - 1]
       /\ undo = <<>>

InitDelete ==
    \E sh \in ColouredShapes(DeleteRows, DeleteCols) :
        /\ sh[3] >= 0
        /\ \E m \in [1..sh[1] -> ColouredRows(sh[2], sh[3])] :
               DeleteStarted(create_network(EmptyRegistry, m, <<sh[3]>>, <<>>),
                             m, sh[3])

SpecDelete == InitDelete /\ [][DeleteNext]_vars

(***************************************************************************)
(* The builders called on any argument: a matrix of rows of any lengths    *)
(* (an empty matrix and ragged rows included), and primary and secondary   *)
(* counts given or left None.  create_network is called first, then one of *)
(* the array classes on the same arguments.                                *)
(***************************************************************************)
\* an optional argument: None, or a value of S
Optional(S) == {<<>>} \cup {<<v>> : v \in S}

ArgRowsOf == UNION {[1..w -> 0..(MaxColour + 1)] : w \in 0..ArgCols}

BuildMatrices == UNION {[1..h -> ArgRowsOf] : h \in 0..ArgRows}

BuildCounts == Optional((-1)..(ArgCols + 1))

InitBuild ==
    \E m \in BuildMatrices : \E p \in BuildCounts : \E s \in BuildCounts :
       /\ matrix = m
       /\ given = [primary |-> p, secondary |-> s]
       /\ primary = NoneId
       /\ algo = "build"
       /\ reg = EmptyRegistry
       /\ built = EmptyRegistry
       /\ netroot = NoneId
       /\ raised = FALSE
       /\ net = <<>>
       /\ built_net = <<>>
       /\ pc = "call"
       /\ stack = <<>>
       /\ sol = <<>>
       /\ choices = <<>>
       /\ branches = <<>>
       /\ out = <<>>
       /\ undo = <<>>

\* what the call of create_network leaves: the registry, the root returned,
\* whether it raised, and the local `primary` when it did not
Returned(nw, counts) ==
    /\ reg' = nw.reg
    /\ built' = nw.reg
    /\ netroot' = nw.root
    /\ raised' = nw.raised
    /\ primary' = IF nw.raised THEN primary ELSE counts.primary

\* root = create_network(matrix, None, primary, secondary)
Build_create_network ==
    /\ algo = "build"
    /\ pc = "call"
    /\ Returned(create_network(reg, matrix, given.primary, given.secondary),
                IF matrix = <<>> THEN [primary |-> NoneId]
                ELSE ItemCounts(Len(matrix[1]), given.primary, given.secondary))
    /\ pc' = "linked"
    /\ UNCHANGED <<matrix, algo, net, built_net, stack, sol, choices,
                   branches, out, undo, given>>

\* what the call of an array class leaves
Constructed(nt) ==
    /\ net' = nt
    /\ built_net' = nt
    /\ pc' = "done"
    /\ UNCHANGED <<matrix, primary, algo, reg, built, stack, sol, choices,
                   branches, out, undo, netroot, given, raised>>

\* network = Network(matrix, None, primary)
Build_Network ==
    /\ algo = "build"
    /\ pc = "linked"
    /\ Constructed(Network_init(matrix, given.primary))

\* network = NetworkColour(matrix, None, primary)
Build_NetworkColour ==
    /\ algo = "build"
    /\ pc = "linked"
    /\ Constructed(NetworkColour_init(matrix, given.primary))

BuildNext ==
    \/ Build_create_network
    \/ Build_Network
    \/ Build_NetworkColour

SpecBuild == InitBuild /\ [][BuildNext]_vars

(***************************************************************************)
(* Two networks in one registry: create_network is called twice without    *)
(* DancingLink._instances being cleared in between, then one of the two    *)
(* networks is searched, or covered and hidden and restored.  `matrix`,    *)
(* `primary` and `netroot` are those of the network that is worked on.     *)
(***************************************************************************)
\* the matrices of the other network: 0/1, every item primary
OtherMatrices ==
    UNION {[1..h -> [1..w -> 0..1]] : h \in 1..OtherRows, w \in 1..OtherCols}

\* the registry after both calls and the root of the network of m: m is
\* built first (root 0), or after the network of o
BuiltTwo(m, p, o, first) ==
    IF first
    THEN [raised |-> FALSE,
          reg |-> create_network(
                      create_network(EmptyRegistry, m, <<p>>, <<>>).reg,
                      o, <<>>, <<>>).reg,
          root |-> 0]
    ELSE create_network(create_network(EmptyRegistry, o, <<>>, <<>>).reg,
                        m, <<p>>, <<>>)

\* the ids of the nodes of the network that is worked on: the registry
\* numbers the nodes of one call consecutively from its root on
OwnIds ==
    netroot..(netroot + create_network(EmptyRegistry, matrix,
                                       <<primary>>, <<>>).reg.n - 1)

Two_cover == \E i \in Items(reg) \cap OwnIds : Call("cover", i)

Two_hide == \E p \in Options(reg) \cap OwnIds : Call("hide", p)

TwoNext ==
    \/ XccNext
    \/ Two_cover
    \/ Two_hide
    \/ Undo

InitTwo ==
    \E o \in OtherMatrices : \E first \in BOOLEAN :
        \/ \E m \in Matrices01 : \E p \in 0..Len(m[1]) :
               Started(BuiltTwo(m, p, o, first), m, p, "xc")
        \/ \E sh \in ColouredShapes(TwoRows, TwoCols) :
               /\ sh[3] >= 0
               /\ \E m \in [1..sh[1] -> ColouredRows(sh[2], sh[3])] :
                      \/ Started(BuiltTwo(m, sh[3], o, first), m, sh[3], "xcc")
                      \/ OpsStarted(BuiltTwo(m, sh[3], o, first), NoNetwork,
                                    m, sh[3])

SpecTwo == InitTwo /\ [][TwoNext]_vars

(***************************************************************************)
(* network.py: Network.search, the generator of xc on the lists.  The      *)
(* positions of this generator are S2, S5, S6 and Syield; a frame holds    *)
(* the locals i, x and p (in the field `node`).  algo is "search" when the *)
(* caller leaves choose at its default, utility.mrv, and "search_by" when  *)
(* the caller passes a function that reads the lists.                      *)
(***************************************************************************)
\* the inner loop of X5 at a spacer (top[p] <= 0): p = up[p]
NetFwd(nt, p) == IF nt.top[p] <= 0 THEN nt.up[p] ELSE p

\* the inner loop of X6 at a spacer: p = down[p]
NetBwd(nt, p) == IF nt.top[p] <= 0 THEN nt.down[p] ELSE p

\* a chooser passed by the caller: the item of the ring right[0] ... with
\* the smallest len, the first one among equals
RECURSIVE choose_min_len_loop(_, _, _)
choose_min_len_loop(nt, j, best) ==
    IF j = 0 THEN best
    ELSE choose_min_len_loop(nt, nt.right[j],
                             IF nt.top[j] < nt.top[best] THEN j ELSE best)

choose_min_len(nt) == choose_min_len_loop(nt, nt.right[0], nt.right[0])

\* choose(self): utility.mrv takes the lists of the Network for a Column,
\* `j = root.right` is the list right and `j.size` raises AttributeError
search_choose(nt) ==
    IF algo = "search" THEN [raised |-> TRUE, i |-> NoneId]
    ELSE [raised |-> FALSE, i |-> choose_min_len(nt)]

\* the generator of the level returned: its caller goes on at X6 with
\* p = x - 1, and the outermost generator is exhausted
SearchReturn(stk) ==
    IF stk = <<>>
    THEN pc' = "done" /\ stack' = stk
    ELSE /\ pc' = "S6"
         /\ stack' = [stk EXCEPT ![Len(stk)].node = stk[Len(stk)].x - 1]

\* X2, right[0] == 0: yield sol
S2_Visit ==
    /\ pc = "S2"
    /\ net.right[0] = 0
    /\ out' = Append(out, sol)
    /\ pc' = "Syield"
    /\ UNCHANGED <<matrix, primary, algo, reg, net, built, built_net, stack,
                   sol, choices, branches, undo, netroot, given, raised>>

\* X8: the caller asks for the next solution, the generator returns
S8_Leave ==
    /\ pc = "Syield"
    /\ SearchReturn(stack)
    /\ UNCHANGED <<matrix, primary, algo, reg, net, built, built_net, sol,
                   choices, branches, out, undo, netroot, given, raised>>

\* X3 with a chooser that raises: the generator ends with the exception
S3_Raise ==
    /\ pc = "S2"
    /\ net.right[0] # 0
    /\ search_choose(net).raised
    /\ pc' = "error"
    /\ UNCHANGED <<matrix, primary, algo, reg, net, built, built_net, stack,
                   sol, choices, branches, out, undo, netroot, given, raised>>

\* X3 and X4: choose item i, cover it, enter the level
S3_Choose ==
    /\ pc = "S2"
    /\ net.right[0] # 0
    /\ ~search_choose(net).raised
    /\ LET i == search_choose(net).i
       IN /\ net' = Network_cover(net, i)
          /\ branches' = Append(branches, net'.top[i])
          /\ sol' = Append(sol, net'.down[i])
          /\ choices' = Append(choices, 1)
          /\ stack' = Append(stack, [i |-> i, x |-> net'.down[i],
                                     node |-> FirstNode(i, net'.down[i])])
    /\ pc' = "S5"
    /\ UNCHANGED <<matrix, primary, algo, reg, built, built_net, out, undo,
                   netroot, given, raised>>

\* X5: commit the next other item of the option that contains x
S5_Commit ==
    /\ pc = "S5"
    /\ Top.x # Top.i
    /\ LET p == NetFwd(net, Top.node)
       IN /\ p # Top.x
          /\ net' = Network_commit(net, p, net.top[p])
          /\ stack' = [stack EXCEPT ![Len(stack)].node = p + 1]
    /\ UNCHANGED <<matrix, primary, algo, reg, built, built_net, pc, sol,
                   choices, branches, out, undo, netroot, given, raised>>

\* X5, every other item committed: recurse into the next level
S5_Recurse ==
    /\ pc = "S5"
    /\ Top.x # Top.i
    /\ NetFwd(net, Top.node) = Top.x
    /\ pc' = "S2"
    /\ stack' = [stack EXCEPT ![Len(stack)].node = Top.x]
    /\ UNCHANGED <<matrix, primary, algo, reg, net, built, built_net, sol,
                   choices, branches, out, undo, netroot, given, raised>>

\* X6: uncommit the items of the option in the reverse order
S6_Uncommit ==
    /\ pc = "S6"
    /\ LET p == NetBwd(net, Top.node)
       IN /\ p # Top.x
          /\ net' = Network_uncommit(net, p, net.top[p])
          /\ stack' = [stack EXCEPT ![Len(stack)].node = p - 1]
    /\ UNCHANGED <<matrix, primary, algo, reg, built, built_net, pc, sol,
                   choices, branches, out, undo, netroot, given, raised>>

\* X6 that counts the next candidate in branches as well
S6_Next_counts_branch ==
    /\ pc = "S6"
    /\ NetBwd(net, Top.node) = Top.x
    /\ LET x == net.down[Top.x]
       IN /\ stack' = [stack EXCEPT ![Len(stack)].x = x,
                                    ![Len(stack)].node = FirstNode(Top.i, x)]
          /\ sol' = [sol EXCEPT ![Len(sol)] = x]
    /\ choices' = [choices EXCEPT ![Len(choices)] = @ + 1]
    /\ branches' = [branches EXCEPT ![Len(branches)] = @ + 1]
    /\ pc' = "S5"
    /\ UNCHANGED <<matrix, primary, algo, reg, net, built, built_net,
                   out, undo, netroot, given, raised>>

\* X6, all uncommitted: x = down[x], sol[-1] = x, choices[-1] += 1
S6_Next ==
    /\ pc = "S6"
    /\ NetBwd(net, Top.node) = Top.x
    /\ LET x == net.down[Top.x]
       IN /\ stack' = [stack EXCEPT ![Len(stack)].x = x,
                                    ![Len(stack)].node = FirstNode(Top.i, x)]
          /\ sol' = [sol EXCEPT ![Len(sol)] = x]
    /\ choices' = [choices EXCEPT ![Len(choices)] = @ + 1]
    /\ pc' = "S5"
    /\ UNCHANGED <<matrix, primary, algo, reg, net, built, built_net,
                   branches, out, undo, netroot, given, raised>>

\* X7, X8: every option of i tried: uncover i, leave the level
S7_Backtrack ==
    /\ pc = "S5"
    /\ Top.x = Top.i
    /\ net' = Network_uncover(net, Top.i)
    /\ sol' = SubSeq(sol, 1, Len(sol) - 1)
    /\ choices' = SubSeq(choices, 1, Len(choices) - 1)
    /\ branches' = SubSeq(branches, 1, Len(branches) - 1)
    /\ SearchReturn(SubSeq(stack, 1, Len(stack) - 1))
    /\ UNCHANGED <<matrix, primary, algo, reg, built, built_net, out, undo,
                   netroot, given, raised>>

NetworkSearchNext ==
    \/ S2_Visit
    \/ S8_Leave
    \/ S3_Raise
    \/ S3_Choose
    \/ S5_Commit
    \/ S5_Recurse
    \/ S6_Uncommit
    \/ S6_Next
    \/ S7_Backtrack

\* the state in which Network(m, primary=p).search(...) starts; the linked
\* network of the same matrix stands beside it
SearchStarted(nw, an, m, p, a) ==
       /\ matrix = m
       /\ primary = p
       /\ algo = a
       /\ reg = nw.reg
       /\ built = nw.reg
       /\ netroot = nw.root
       /\ given = [primary |-> <<p>>, secondary |-> <<>>]
       /\ raised = nw.raised
       /\ an.ok
       /\ net = an
       /\ built_net = an
       /\ pc = "S2"
       /\ stack = <<>>
       /\ sol = <<>>
       /\ choices = <<>>
       /\ branches = <<>>
       /\ out = <<>>
       /\ undo = <<>>

\* 0/1 matrices; primary=None when every item is primary
InitNetworkSearch ==
    \E m \in Matrices01 : \E p \in 1..Len(m[1]) :
        \E a \in {"search", "search_by"} :
            SearchStarted(create_network(EmptyRegistry, m, <<p>>, <<>>),
                          Network_init(m, IF p = Len(m[1]) THEN <<>> ELSE <<p>>),
                          m, p, a)

SpecNetworkSearch == InitNetworkSearch /\ [][NetworkSearchNext]_vars

\* xc on the nodes or Network.search on the lists
InitEither == InitXC \/ InitNetworkSearch

SpecEither == InitEither /\ [][SearchNext \/ NetworkSearchNext]_vars

(***************************************************************************)
(* What a solution means, read off the matrix.  The builder numbers the    *)
(* nodes in creation order: the root 0, the headers 1 .. Width, then for   *)
(* every row a spacer followed by one node per nonzero entry.              *)
(***************************************************************************)
Width == Len(matrix[1])

RowIds == 1..Len(matrix)

\* the items of a row
RowItems(r) == {c \in 1..Width : matrix[r][c] # 0}

\* the id of the spacer in front of row r
RECURSIVE SpacerOf(_)
SpacerOf(r) ==
    IF r = 1 THEN Width + 1
    ELSE SpacerOf(r - 1) + 1 + Cardinality(RowItems(r - 1))

RowNodes(r) == (SpacerOf(r) + 1)..(SpacerOf(r) + Cardinality(RowItems(r)))

IsOptionNode(id) == \E r \in RowIds : id \in RowNodes(r)

RowOf(id) == CHOOSE r \in RowIds : id \in RowNodes(r)

\* the rows a solution vector names
SolRows(v) == {RowOf(v[k]) : k \in 1..Len(v)}

\* the rows of S that contain item c
Covering(S, c) == {r \in S : matrix[r][c] # 0}

\* every entry names an option node, and no row is named twice
DistinctRows(v) ==
    /\ \A k \in 1..Len(v) : IsOptionNode(v[k])
    /\ \A j, k \in 1..Len(v) : j # k => RowOf(v[j]) # RowOf(v[k])

\* every primary item in exactly one row of S
CoversPrimary(S) ==
    \A c \in 1..primary : c <= Width => Cardinality(Covering(S, c)) = 1

\* every secondary item in at most one row of S
SecondaryAtMostOnce(S) ==
    \A c \in (primary + 1)..Width : Cardinality(Covering(S, c)) <= 1

\* a secondary item is unused, used by a single row, or used by rows that
\* all carry the same colour token (an entry >= 2)
ColourCompatible(S) ==
    \A c \in (primary + 1)..Width :
        \/ Cardinality(Covering(S, c)) <= 1
        \/ \A q, r \in Covering(S, c) :
               matrix[q][c] >= 2 /\ matrix[q][c] = matrix[r][c]

\* the sets of rows the yielded solutions name
Emitted == {SolRows(out[k]) : k \in 1..Len(out)}

\* every set of the family T is emitted, nothing else is, and nothing twice
EmitsExactly(T) == Emitted = T /\ Len(out) = Cardinality(T)

\* the sets of non-empty rows that partition the columns
ExactCovers ==
    {S \in SUBSET RowIds :
        /\ \A r \in S : RowItems(r) # {}
        /\ \A c \in 1..Width : Cardinality(Covering(S, c)) = 1}

\* the colour-compatible sets of rows that cover every primary item once
ColouredCovers ==
    {S \in SUBSET RowIds : CoversPrimary(S) /\ ColourCompatible(S)}

\* those whose rows all contain a primary item
PrimaryRows(S) == \A r \in S : \E c \in 1..primary : c \in RowItems(r)

(***************************************************************************)
(* Properties of xc (SpecXC).                                              *)
(***************************************************************************)
\* C1: every solution xc yields names distinct option rows that together
\* contain every primary item exactly once and every secondary item at most
\* once.
C1_SolutionCorrect ==
    \A k \in 1..Len(out) :
        /\ DistinctRows(out[k])
        /\ CoversPrimary(SolRows(out[k]))
        /\ SecondaryAtMostOnce(SolRows(out[k]))

\* xc yields a solution of two rows, one of which contains a secondary item
C1_Witness ==
    /\ algo = "xc"
    /\ pc = "yield"
    /\ Len(sol) >= 2
    /\ \E c \in (primary + 1)..Width : Covering(SolRows(sol), c) # {}

\* C3: on a 0/1 matrix whose columns are all primary, the drained xc has
\* yielded every set of rows that partitions the columns, each exactly once,
\* and nothing when there is none.
C3_Complete ==
    (algo = "xc" /\ pc = "done" /\ primary = Width) => EmitsExactly(ExactCovers)

\* xc is drained after it yielded two exact covers
C3_Witness ==
    /\ algo = "xc"
    /\ pc = "done"
    /\ primary = Width
    /\ Len(out) >= 2

C2_ColourConstraint ==
    \A k \in 1..Len(out) :
        /\ DistinctRows(out[k])
        /\ ColourCompatible(SolRows(out[k]))

\* xcc yields a solution in which two rows share a secondary item of one colour
C2_Witness ==
    /\ algo = "xcc"
    /\ pc = "yield"
    /\ \E c \in (primary + 1)..Width :
           /\ Cardinality(Covering(SolRows(sol), c)) = 2
           /\ \A r \in Covering(SolRows(sol), c) : matrix[r][c] >= 2

\* C4 as stated: the drained xcc has yielded every colour-compatible set of
\* rows that covers each primary item exactly once, each exactly once,
\* including the sets that contain rows made only of secondary items.
C4_CompleteAll ==
    (algo = "xcc" /\ pc = "done" /\ MatrixMax(matrix) >= 2)
        => EmitsExactly(ColouredCovers)

\* C4: the drained xcc has yielded, each exactly once, the colour-compatible
\* sets of rows that cover each primary item exactly once and whose rows all
\* contain a primary item.
C4_CompletePrimaryRows ==
    (algo = "xcc" /\ pc = "done") =>
        EmitsExactly({S \in ColouredCovers : PrimaryRows(S)})

\* xcc is drained on a coloured matrix that has a row made only of a
\* secondary item, after it yielded a solution of two rows
C4_Witness ==
    /\ algo = "xcc"
    /\ pc = "done"
    /\ MatrixMax(matrix) >= 2
    /\ \E r \in RowIds : RowItems(r) # {} /\ \A c \in RowItems(r) : c > primary
    /\ \E k \in 1..Len(out) : Len(out[k]) >= 2

\* C6: after xcc is drained on a coloured network, every field of every node
\* is what it was when the network was built: the links, the sizes, the
\* colour of every option node, and the colour None of every header.
C6_Restored ==
    (algo = "xcc" /\ pc = "done" /\ MatrixMax(matrix) >= 2) => reg = built

(***************************************************************************)
(* Properties of the link operations (SpecOps).                            *)
(***************************************************************************)
\* the calls made were `op` on one node, and they are reverted
Reverted(op) == pc = "done" /\ Len(out) = 1 /\ out[1].op = op

\* name, left, right, up, down and size of every linked node
LinkFields(r) == <<r.name, r.left, r.right, r.up, r.down, r.size>>

\* name, left, right, up, down and top (which holds len) of the array network
ListFields(nt) == <<nt.name, nt.left, nt.right, nt.up, nt.down, nt.top>>

\* C7: on a freshly built network, cover(i) followed by uncover(i) restores
\* name, left, right, up, down and size (len) of every node, in the linked
\* and in the array implementation.
C7_CoverUncover ==
    Reverted("cover") =>
        /\ LinkFields(reg) = LinkFields(built)
        /\ net.ok => ListFields(net) = ListFields(built_net)

\* cover and uncover of an item with two rows, on both implementations
C7_Witness ==
    /\ Reverted("cover")
    /\ net.ok
    /\ built.size[out[1].id] >= 2

\* C8: on a freshly built network, hide(p) followed by unhide(p) restores
\* up, down and size (len) of every node, in both implementations.
C8_HideUnhide ==
    Reverted("hide") =>
        /\ <<reg.up, reg.down, reg.size>> = <<built.up, built.down, built.size>>
        /\ net.ok => <<net.up, net.down, net.top>>
                         = <<built_net.up, built_net.down, built_net.top>>

\* hide and unhide of a node whose row has two other nodes, on both
\* implementations
C8_Witness ==
    /\ Reverted("hide")
    /\ net.ok
    /\ Cardinality(RowItems(RowOf(out[1].id))) >= 3

\* C9: on a freshly built coloured network, for an option node p of positive
\* colour, purify(p) followed by unpurify(p), and commit(p) followed by
\* uncommit(p), restore every link, size and colour, the colour None of the
\* header included.
C9_PurifyUnpurify ==
    ((Reverted("purify") \/ Reverted("commit")) /\ built.colour[out[1].id] > 0)
        => /\ reg = built
           /\ net.ok => net = built_net

\* purify and unpurify of a node of positive colour are done
C9_Witness ==
    /\ Reverted("purify")
    /\ built.colour[out[1].id] > 0

\* C10: any sequence of cover, hide, purify and commit calls followed by the
\* matching inverse calls in the exact reverse order leaves the network as
\* it was before the sequence.
C10_Reversible ==
    pc = "done" => /\ reg = built
                   /\ net.ok => net = built_net

\* two calls were made and reverted
C10_Witness == pc = "done" /\ Len(out) = 2

(***************************************************************************)
(* Properties of the item selection (SpecXC).                              *)
(***************************************************************************)
\* the items met when walking right from j until the root is met again
RECURSIVE RingFrom(_, _, _)
RingFrom(r, root, j) ==
    IF j = root THEN <<>> ELSE <<j>> \o RingFrom(r, root, r.right[j])

\* the ring of the root, in the order of the walk
Ring == RingFrom(reg, netroot, reg.right[netroot])

\* C11: in every state of the network in which the ring of the root is not
\* empty, mrv returns an item of the ring whose size is minimal among the
\* items of the ring, and of the items of that size the first one met when
\* walking right from the root.
C11_MrvFirstMinimum ==
    Ring # <<>> =>
        \E k \in 1..Len(Ring) :
            /\ mrv(reg, netroot) = Ring[k]
            /\ \A j \in 1..Len(Ring) : reg.size[Ring[j]] >= reg.size[Ring[k]]
            /\ \A j \in 1..(k - 1) : reg.size[Ring[j]] > reg.size[Ring[k]]

\* xc chose, by mrv, the second item of a ring of three whose first item is
\* larger and whose third item has the size of the second
C11_Witness ==
    /\ algo = "xc"
    /\ Len(stack) >= 1
    /\ built.right[netroot] = 1 /\ built.right[1] = 2 /\ built.right[2] = 3
    /\ built.size[1] > built.size[2]
    /\ built.size[3] = built.size[2]
    /\ stack[1].i = 2

(***************************************************************************)
(* Properties of the order of emission (SpecSearch).  The reference is the *)
(* depth-first enumeration read off the matrix alone.                      *)
(***************************************************************************)
\* the id of the node of row r in column c
NodeAt(r, c) == SpacerOf(r) + Cardinality({d \in RowItems(r) : d <= c})

\* row r can still be chosen next to the rows S: it shares no primary item
\* with them, and a secondary item only under one colour token
Compatible(r, S) ==
    \A q \in S : \A c \in RowItems(r) \cap RowItems(q) :
        c > primary /\ matrix[q][c] >= 2 /\ matrix[q][c] = matrix[r][c]

\* the candidate rows of item c next to the rows S
Candidates(S, c) == {r \in RowIds \ S : c \in RowItems(r) /\ Compatible(r, S)}

\* the primary items no row of S contains
OpenItems(S) == {c \in 1..primary : c <= Width /\ Covering(S, c) = {}}

\* the first of the open items that have the fewest candidates
FirstMinimum(S) ==
    CHOOSE c \in OpenItems(S) :
        \A d \in OpenItems(S) :
            \/ Cardinality(Candidates(S, d)) > Cardinality(Candidates(S, c))
            \/ Cardinality(Candidates(S, d)) = Cardinality(Candidates(S, c)) /\ d >= c

\* the solutions below the partial solution v, whose rows are S: the
\* candidates of the chosen item are tried from row r on, top to bottom
RECURSIVE DepthFirst(_, _), TryFrom(_, _, _, _)
DepthFirst(S, v) ==
    IF OpenItems(S) = {} THEN <<v>> ELSE TryFrom(S, v, FirstMinimum(S), 1)

TryFrom(S, v, i, r) ==
    IF r > Len(matrix) THEN <<>>
    ELSE (IF r \in Candidates(S, i)
          THEN DepthFirst(S \cup {r}, Append(v, NodeAt(r, i)))
          ELSE <<>>) \o TryFrom(S, v, i, r + 1)

IsPrefix(a, b) == Len(a) <= Len(b) /\ a = SubSeq(b, 1, Len(a))

\* the sequence yielded so far starts the sequence b, and is b when drained
Emits(b) == IsPrefix(out, b) /\ (pc = "done" => out = b)

\* C12: the sequence of solution id vectors xc and xcc yield is a function
\* of the matrix and the primary count: it is the depth-first sequence in
\* which every level takes the first item of minimum size and tries its
\* candidate options from the top of the item's column to the bottom.
C12_EmissionOrder == Emits(DepthFirst({}, <<>>))

\* xcc is drained on a coloured matrix after it yielded two solutions that
\* start in an item which is not the first of the ring
C12_Witness ==
    /\ algo = "xcc"
    /\ pc = "done"
    /\ MatrixMax(matrix) >= 2
    /\ Len(out) >= 2
    /\ reg.column[out[1][1]] # 1

(***************************************************************************)
(* Properties of the builders (SpecBuild).                                 *)
(***************************************************************************)
\* create_network was called
Called == algo = "build" /\ pc # "call"

\* a count is given and lies outside [0, Width]
OutsideWidth(c) == c # <<>> /\ (c[1] < 0 \/ c[1] > Width)

\* both counts are given and do not sum to Width
SumDiffers ==
    /\ given.primary # <<>>
    /\ given.secondary # <<>>
    /\ given.primary[1] + given.secondary[1] # Width

\* C13: create_network raises whenever the given primary is outside
\* [0, W] (negative or greater than the width W of the matrix), whenever the
\* given secondary is outside [0, W], and whenever both are given and
\* primary + secondary # W.
C13_RejectsCounts ==
    (Called /\ matrix # <<>>) =>
        ((\/ OutsideWidth(given.primary)
          \/ OutsideWidth(given.secondary)
          \/ SumDiffers) => raised)

\* the matrix has rows, all of the length of the first, which is not 0
Rectangular ==
    /\ matrix # <<>>
    /\ Width >= 1
    /\ \A r \in 1..Len(matrix) : Len(matrix[r]) = Width

\* the constructor of the array class cls was called
Made(cls) == algo = "build" /\ pc = "done" /\ net.cls = cls

\* the items met when walking the list `right` from j until 0 is met again
RECURSIVE ListRing(_, _)
ListRing(right, j) ==
    IF j = 0 THEN <<>> ELSE <<j>> \o ListRing(right, right[j])

\* 1, 2, ..., n
UpTo(n) == [k \in 1..n |-> k]

\* C14: Network(matrix, names, primary) rejects an explicitly given primary
\* exactly when it lies outside [0, W]: every P with 0 <= P <= W, P = 0 and
\* P = W included, builds a network in which the items 1..P are primary (in
\* the ring of the root) and the others are secondary.
C14_NetworkAcceptsWithinWidth ==
    (Made("Network") /\ Rectangular /\ given.primary # <<>>) =>
        /\ net.ok <=> (0 <= given.primary[1] /\ given.primary[1] <= Width)
        /\ net.ok => /\ net.primary = given.primary[1]
                     /\ ListRing(net.right, net.right[0]) = UpTo(net.primary)

\* a row is shorter or longer than the first row
Ragged ==
    /\ matrix # <<>>
    /\ \E r \in 1..Len(matrix) : Len(matrix[r]) # Len(matrix[1])

\* C15: a matrix with ragged rows, or an empty matrix, is rejected with an
\* error by create_network and by Network (and NetworkColour): no network
\* is returned for such a matrix.
C15_RejectsRagged ==
    (matrix = <<>> \/ Ragged) =>
        /\ Called => raised
        /\ (algo = "build" /\ pc = "done") => ~net.ok

\* none of the lists of the array network exists
NoLists(nt) ==
    /\ nt.n = 0
    /\ <<nt.name, nt.left, nt.right, nt.top, nt.up, nt.down>>
           = <<<<>>, <<>>, <<>>, <<>>, <<>>, <<>>>>

\* C16: whenever create_network raises, no node has been created: the
\* registry DancingLink._instances is what it was before the call; and
\* whenever Network raises for its primary argument (the rows being of one
\* length, nothing else can raise), none of its lists exists.
C16_NoPartialArena ==
    /\ (Called /\ raised) => reg = EmptyRegistry
    /\ (Made("Network") /\ Rectangular /\ ~net.ok) => NoLists(net)

\* create_network raised for a primary and a secondary that do not sum to
\* the width, and Network raised for the primary
C16_Witness ==
    /\ Made("Network")
    /\ Rectangular
    /\ raised
    /\ SumDiffers
    /\ ~net.ok

\* the number of nonzero entries of the matrix
RECURSIVE EntriesUpTo(_)
EntriesUpTo(r) ==
    IF r = 0 THEN 0 ELSE EntriesUpTo(r - 1) + Cardinality(RowItems(r))

\* the id of the final spacer
FinalSpacer == Width + 1 + Len(matrix) + EntriesUpTo(Len(matrix))

\* the ids of the nodes of column c from row r on, in row order
RECURSIVE ColumnNodes(_, _)
ColumnNodes(c, r) ==
    IF r > Len(matrix) THEN <<>>
    ELSE (IF c \in RowItems(r) THEN <<NodeAt(r, c)>> ELSE <<>>)
             \o ColumnNodes(c, r + 1)

\* the nodes met when walking `down` from j until the header c is met again
RECURSIVE DownWalk(_, _, _)
DownWalk(down, c, j) ==
    IF j = c THEN <<>> ELSE <<j>> \o DownWalk(down, c, down[j])

\* the ids in the registry of the linked nodes
LinkedInBuildOrder ==
    /\ reg.n = 1 + Width + (Len(matrix) + 1) + EntriesUpTo(Len(matrix))
    /\ netroot = 0
    /\ \A c \in 0..Width : reg.kind[c] \in {"Column", "ColumnColour"}
    /\ \A r \in RowIds :
           /\ reg.kind[SpacerOf(r)] \in {"Link", "LinkColour"}
           /\ reg.column[SpacerOf(r)] = NoneId
           /\ \A c \in RowItems(r) :
                  /\ reg.kind[NodeAt(r, c)] \in {"Link", "LinkColour"}
                  /\ reg.column[NodeAt(r, c)] = c
    /\ reg.kind[FinalSpacer] \in {"Link", "LinkColour"}
    /\ reg.column[FinalSpacer] = NoneId
    /\ \A c \in 1..Width :
           /\ reg.size[c] = Len(ColumnNodes(c, 1))
           /\ DownWalk(reg.down, c, reg.down[c]) = ColumnNodes(c, 1)

\* the indexes in the lists of the array network
ListsInBuildOrder ==
    /\ net.n = 1 + Width + (Len(matrix) + 1) + EntriesUpTo(Len(matrix))
    /\ \A r \in RowIds :
           /\ net.top[SpacerOf(r)] = 1 - r
           /\ \A c \in RowItems(r) : net.top[NodeAt(r, c)] = c
    /\ net.top[FinalSpacer] = 0 - Len(matrix)
    /\ \A c \in 1..Width :
           /\ net.top[c] = Len(ColumnNodes(c, 1))
           /\ DownWalk(net.down, c, net.down[c]) = ColumnNodes(c, 1)

\* C17: a build of an R x W matrix with n nonzero entries (into the empty
\* registry) numbers the nodes in build order: the root 0, the headers 1..W,
\* then for every row a spacer followed by the row's option nodes in column
\* order, then a final spacer, 1 + W + (R + 1) + n nodes in all; the size of
\* a header is the number of nonzero entries of its column, and its
\* vertical ring lists their nodes in row order.
C17_BuildOrder ==
    /\ (Called /\ Rectangular /\ ~raised) => LinkedInBuildOrder
    /\ (algo = "build" /\ pc = "done" /\ Rectangular /\ net.ok)
           => ListsInBuildOrder

\* both builders built a matrix of two rows in which a column has two
\* entries and a row has two
C17_Witness ==
    /\ algo = "build"
    /\ pc = "done"
    /\ Rectangular
    /\ ~raised
    /\ net.ok
    /\ \E c \in 1..Width : Len(ColumnNodes(c, 1)) = 2
    /\ \E r \in RowIds : Cardinality(RowItems(r)) = 2

\* the headers P+1 .. Width are self-looped in the lists left and right
SelfLooped(left, right, P) ==
    \A j \in (P + 1)..Width : left[j] = j /\ right[j] = j

\* the headers P+1 .. Width are a ring of their own, closed through the
\* index Width + 1
SecondaryRing(left, right, P) ==
    /\ \A j \in (P + 1)..Width :
           /\ right[j] = j + 1
           /\ left[j] = IF j = P + 1 THEN Width + 1 ELSE j - 1
    /\ right[Width + 1] = P + 1
    /\ left[Width + 1] = Width

\* create_network built the network with a primary count within the width
LinkedBuilt == Called /\ Rectangular /\ ~raised /\ primary \in 0..Width

\* C18 as stated: after a build with primary count P the walk to the right
\* from the root visits the headers 1..P in order, and every secondary
\* header P+1..W is self-looped (left = right = itself), for
\* create_network, Network and NetworkColour.
C18_SecondarySelfLooped ==
    /\ LinkedBuilt =>
           /\ RingFrom(reg, 0, reg.right[0]) = UpTo(primary)
           /\ SelfLooped(reg.left, reg.right, primary)
    /\ (algo = "build" /\ pc = "done" /\ Rectangular /\ net.ok) =>
           /\ ListRing(net.right, net.right[0]) = UpTo(net.primary)
           /\ SelfLooped(net.left, net.right, net.primary)

\* C18: after a build with primary count P the walk to the right from the
\* root visits the headers 1..P in order; the secondary headers P+1..W are
\* self-looped in create_network and Network, and in NetworkColour they
\* are a second ring closed through the index W+1.
C18_PrimaryRing ==
    /\ LinkedBuilt =>
           /\ RingFrom(reg, 0, reg.right[0]) = UpTo(primary)
           /\ SelfLooped(reg.left, reg.right, primary)
    /\ (Made("Network") /\ Rectangular /\ net.ok) =>
           /\ ListRing(net.right, net.right[0]) = UpTo(net.primary)
           /\ SelfLooped(net.left, net.right, net.primary)
    /\ (Made("NetworkColour") /\ Rectangular /\ net.ok) =>
           /\ ListRing(net.right, net.right[0]) = UpTo(net.primary)
           /\ SecondaryRing(net.left, net.right, net.primary)

\* create_network and NetworkColour built a matrix of two items, the first
\* primary and the second secondary
C18_Witness ==
    /\ Made("NetworkColour")
    /\ LinkedBuilt
    /\ net.ok
    /\ Width = 2
    /\ primary = 1
    /\ net.primary = 1

\* the first and the last option node of a row that has one
FirstOf(r) == SpacerOf(r) + 1

LastOf(r) == SpacerOf(r) + Cardinality(RowItems(r))

\* the last option node created in the rows 1..r, None when there is none
RECURSIVE LastCreated(_)
LastCreated(r) ==
    IF r = 0 THEN NoneId
    ELSE IF RowItems(r) # {} THEN LastOf(r)
    ELSE LastCreated(r - 1)

\* the spacer discipline as stated: up is the first node of the row before
\* the spacer and None for the first spacer only, down is the last node of
\* the row after the spacer and None for the final spacer only
Discipline(up, down) ==
    /\ up[SpacerOf(1)] = NoneId
    /\ down[FinalSpacer] = NoneId
    /\ \A r \in RowIds :
           /\ RowItems(r) # {}
           /\ up[SpacerOf(r) + Cardinality(RowItems(r)) + 1] = FirstOf(r)
           /\ down[SpacerOf(r)] = LastOf(r)

\* the discipline the builders keep: next to an all-zero row, up is None and
\* down is the last option node created so far
DisciplineBuilt(up, down) ==
    /\ up[SpacerOf(1)] = NoneId
    /\ down[FinalSpacer] = NoneId
    /\ \A r \in RowIds :
           /\ up[SpacerOf(r) + Cardinality(RowItems(r)) + 1]
                  = IF RowItems(r) # {} THEN FirstOf(r) ELSE NoneId
           /\ down[SpacerOf(r)] = LastCreated(r)

\* C19 as stated: after the build of any matrix, matrices with all-zero rows
\* included, every spacer's up is the first option node of the row that
\* precedes it (None only for the first spacer) and every spacer's down is
\* the last option node of the row that follows it (None only for the final
\* spacer).
C19_SpacerDiscipline ==
    /\ (Called /\ Rectangular /\ ~raised) => Discipline(reg.up, reg.down)
    /\ (algo = "build" /\ pc = "done" /\ Rectangular /\ net.ok)
           => Discipline(net.up, net.down)

\* C19: after the build, every spacer's up is the first option node of the
\* row that precedes it, and None for the first spacer and after an
\* all-zero row; every spacer's down is the last option node of the row
\* that follows it, for an all-zero row the last option node created before
\* it (None when there is none), and None for the final spacer.
C19_SpacerDisciplineBuilt ==
    /\ (Called /\ Rectangular /\ ~raised) => DisciplineBuilt(reg.up, reg.down)
    /\ (algo = "build" /\ pc = "done" /\ Rectangular /\ net.ok)
           => DisciplineBuilt(net.up, net.down)

\* both builders built a matrix whose first row has two option nodes and
\* whose second row is all zero
C19_Witness ==
    /\ algo = "build"
    /\ pc = "done"
    /\ Rectangular
    /\ ~raised
    /\ net.ok
    /\ Len(matrix) = 2
    /\ Cardinality(RowItems(1)) = 2
    /\ RowItems(2) = {}

\* the entries of the secondary columns that are colour tokens (values
\* greater than 1), when the items after P are secondary
TokenEntries(P) ==
    {e \in RowIds \X (1..Width) : e[2] > P /\ matrix[e[1]][e[2]] > 1}

Tokens(P) == {matrix[e[1]][e[2]] : e \in TokenEntries(P)}

\* the colours stored on the nodes of the token entries are the ids of a
\* bijection of the tokens onto 1 .. K
DenseColours(colour, P) ==
    /\ {colour[NodeAt(e[1], e[2])] : e \in TokenEntries(P)}
           = 1..Cardinality(Tokens(P))
    /\ \A e, f \in TokenEntries(P) :
           (colour[NodeAt(e[1], e[2])] = colour[NodeAt(f[1], f[2])])
               <=> (matrix[e[1]][e[2]] = matrix[f[1]][f[2]])

\* the table of NetworkColour: the map, the node colours and the inverse
ColourTable(nt) ==
    /\ DOMAIN nt.colour_map = Tokens(nt.primary)
    /\ {nt.colour_map[v] : v \in Tokens(nt.primary)}
           = 1..Cardinality(Tokens(nt.primary))
    /\ \A e \in TokenEntries(nt.primary) :
           nt.colour[NodeAt(e[1], e[2])] = nt.colour_map[matrix[e[1]][e[2]]]
    /\ \A v \in Tokens(nt.primary) :
           nt.colour_map_inv[nt.colour_map[v]] = v

\* C20: the builder maps the set of the distinct values greater than 1 of
\* the secondary columns bijectively onto the dense colour ids 1..K (K the
\* number of such values), stores on every option node the id of its
\* value, and keeps an inverse map with inverse[map[v]] = v.  Stated for
\* NetworkColour with its maps, and for create_network by the colours its
\* nodes carry.
C20_ColourTable ==
    /\ (Made("NetworkColour") /\ Rectangular /\ net.ok) => ColourTable(net)
    /\ (LinkedBuilt /\ MatrixMax(matrix) > 1) => DenseColours(reg.colour, primary)

(***************************************************************************)
(* Properties of the rows during the search (SpecSearch).                  *)
(***************************************************************************)
\* the k-th item of row r, the items counted in increasing order
ItemAt(r, k) ==
    CHOOSE c \in RowItems(r) : Cardinality({d \in RowItems(r) : d <= c}) = k

\* the option nodes of row r in increasing column order
RowInOrder(r) == [k \in 1..Cardinality(RowItems(r)) |-> NodeAt(r, ItemAt(r, k))]

\* the names of the items of row r in increasing column order
NamesInOrder(r) ==
    [k \in 1..Cardinality(RowItems(r)) |-> built.name[ItemAt(r, k)]]

\* C21: in every state of the search, for every option node p, the walk
\* from p forward to the first spacer and then from the spacer's up forward
\* to the next spacer meets exactly the option nodes of p's row, each once,
\* in increasing column order, whichever node of the row p is; and
\* print_solution prints the item names of every row of a yielded solution
\* in that order.
C21_RowRecovery ==
    /\ \A r \in RowIds : \A p \in RowNodes(r) :
           RowLinks(reg, RowStart(reg, p)) = RowInOrder(r)
    /\ (pc = "yield" /\ sol # <<>>) =>
           /\ ~print_solution(reg, sol).raised
           /\ print_solution(reg, sol).lines
                  = [k \in 1..Len(sol) |-> NamesInOrder(RowOf(sol[k]))]

\* a solution is yielded in which a row is named by a node that is not the
\* first of its row
C21_Witness ==
    /\ pc = "yield"
    /\ \E k \in 1..Len(sol) : sol[k] # RowInOrder(RowOf(sol[k]))[1]

\* the primary items that the rows of the solution v contain
CoveredBy(v) ==
    {c \in 1..primary : \E k \in 1..Len(v) : c \in RowItems(RowOf(v[k]))}

\* C22: when the caller stops pulling after a yielded solution nothing is
\* unwound: the network is in the state of the yield, with the root ring
\* empty, every level of the partial solution still entered and every item
\* of its rows still covered, so it differs from the network as built
\* whenever there is a primary item.
C22_EarlyStop ==
    pc = "stopped" =>
        /\ reg.right[netroot] = netroot
        /\ reg.left[netroot] = netroot
        /\ Len(stack) = Len(sol)
        /\ sol = out[Len(out)]
        /\ CoveredBy(sol) = 1..primary
        /\ primary >= 1 => reg # built

\* the caller stopped after a solution of two rows
C22_Witness ==
    /\ pc = "stopped"
    /\ primary >= 1
    /\ Len(sol) >= 2

(***************************************************************************)
(* Properties of two networks in one registry (SpecTwo).                   *)
(***************************************************************************)
\* every field of node id
NodeFields(r, id) ==
    <<r.kind[id], r.up[id], r.down[id], r.left[id], r.right[id], r.size[id],
      r.name[id], r.column[id], r.colour[id]>>

\* the nodes of the network that is not worked on
OtherIds == (0..(reg.n - 1)) \ OwnIds

\* the solutions yielded, their nodes numbered from the root of the network
OutFromRoot ==
    [k \in 1..Len(out) |-> [j \in 1..Len(out[k]) |-> out[k][j] - netroot]]

\* the sequence o starts the sequence b, and is b when the search is drained
EmitsAs(o, b) == IsPrefix(o, b) /\ (pc = "done" => o = b)

\* C23: with two networks built one after the other in one registry, every
\* cover, uncover, hide, unhide and every step of a search on one of them
\* leaves every field of every node of the other as it was built, and the
\* network searched yields the solutions (the same rows in the same order)
\* that it yields when it is alone in the registry.
C23_Independent ==
    /\ \A id \in OtherIds : NodeFields(reg, id) = NodeFields(built, id)
    /\ algo \in {"xc", "xcc"} => EmitsAs(OutFromRoot, DepthFirst({}, <<>>))

\* the network built second, behind a network with two items, is drained
\* after it yielded a solution of two rows
C23_Witness ==
    /\ algo \in {"xc", "xcc"}
    /\ netroot > 0
    /\ built.size[1] = 1 /\ built.size[2] = 1
    /\ pc = "done"
    /\ \E k \in 1..Len(out) : Len(out[k]) >= 2

(***************************************************************************)
(* Properties of the rings during the search (SpecSearch).  What is        *)
(* covered is read off the position of the generators: level k has covered *)
(* its item i, and committed the other nodes of the row of x in the cyclic *)
(* order x+1, x+2, ... as far as its inner loop went.                      *)
(***************************************************************************)
\* the place of node n of the row of x in the cyclic order that starts
\* behind x: 1 for the node behind x, 0 for x itself
CyclicPlace(x, n) == (n - x) % Cardinality(RowNodes(RowOf(x)))

\* the other nodes of the row of frame f that are committed: all of them
\* below the top level and between X5 and X6, a part of them inside X5, X6
Committed(k) ==
    LET f == stack[k]
        others == RowNodes(RowOf(f.x)) \ {f.x}
    IN IF f.x = f.i THEN {}
       ELSE IF k < Len(stack) \/ pc \in {"X2", "yield", "stopped"} THEN others
       ELSE IF pc = "X6"
       THEN {n \in others :
                /\ BwdNode(reg, f.node) # f.x
                /\ CyclicPlace(f.x, n) <= CyclicPlace(f.x, BwdNode(reg, f.node))}
       ELSE {n \in others :
                \/ FwdNode(reg, f.node) = f.x
                \/ CyclicPlace(f.x, n) < CyclicPlace(f.x, FwdNode(reg, f.node))}

\* the items that are covered: the item of every level, and the items of
\* the committed nodes that commit covers (those without a colour token)
CoveredItems ==
    {stack[k].i : k \in 1..Len(stack)}
        \cup {reg.column[n] : n \in UNION {Committed(k) : k \in 1..Len(stack)}}

\* the nodes met from j on by following `next`, until the root is met or
\* more nodes were met than the registry holds
RECURSIVE Walk(_, _, _)
Walk(next, j, fuel) ==
    IF j = netroot \/ fuel = 0 THEN <<>>
    ELSE <<j>> \o Walk(next, next[j], fuel - 1)

Reverse(q) == [k \in 1..Len(q) |-> q[Len(q) + 1 - k]]

Range(q) == {q[k] : k \in 1..Len(q)}

\* C24: in every state of an xc or xcc search, the walk to the right from
\* the root comes back to the root and meets exactly the primary headers
\* that are not covered, each once, and the walk to the left meets the same
\* headers in the reverse order.
C24_HorizontalRing ==
    /\ Len(Walk(reg.right, reg.right[netroot], reg.n + 1)) <= primary
    /\ Range(Walk(reg.right, reg.right[netroot], reg.n + 1))
           = (1..primary) \ CoveredItems
    /\ Cardinality(Range(Walk(reg.right, reg.right[netroot], reg.n + 1)))
           = Len(Walk(reg.right, reg.right[netroot], reg.n + 1))
    /\ Walk(reg.left, reg.left[netroot], reg.n + 1)
           = Reverse(Walk(reg.right, reg.right[netroot], reg.n + 1))

\* inside the second level of a search, with an item still in the ring
\* between two covered ones
C24_Witness ==
    /\ Len(stack) = 2
    /\ pc = "X5"
    /\ primary >= 3
    /\ reg.right[netroot] = 2
    /\ reg.right[2] = netroot

\* the nodes met from j on by following `next`, until `stop` is met or more
\* nodes were met than the registry holds
RECURSIVE WalkUntil(_, _, _, _)
WalkUntil(next, stop, j, fuel) ==
    IF j = stop \/ fuel = 0 THEN <<>>
    ELSE <<j>> \o WalkUntil(next, stop, next[j], fuel - 1)

\* the walk q down from header h comes back to h, over h.size distinct
\* option nodes of h, and the walk up is its reverse
VerticalRing(h, q) ==
    /\ Len(q) <= reg.n
    /\ Len(q) = reg.size[h]
    /\ Cardinality(Range(q)) = Len(q)
    /\ \A k \in 1..Len(q) : reg.column[q[k]] = h
    /\ WalkUntil(reg.up, h, reg.up[h], reg.n + 1) = Reverse(q)

\* the headers of the root ring
RootRing == Range(Walk(reg.right, reg.right[netroot], reg.n + 1))

\* C25: in every state of an xc or xcc search, for every header h of the
\* root ring, the walk down from h comes back to h, the number of option
\* nodes it meets is h.size, and the walk up from h meets the same nodes in
\* the reverse order; in xcc also while nodes of colour -1 stay linked in
\* purified columns.
C25_VerticalRing ==
    \A h \in RootRing :
        VerticalRing(h, WalkUntil(reg.down, h, reg.down[h], reg.n + 1))

\* an xcc state in which a node is marked -1 in a purified column and a
\* header of the root ring has lost a node
C25_Witness ==
    /\ algo = "xcc"
    /\ \E n \in 0..(reg.n - 1) : reg.colour[n] = -1
    /\ \E h \in RootRing : 0 < reg.size[h] /\ reg.size[h] < built.size[h]

(***************************************************************************)
(* Properties of commit during the search (SpecXCC).                       *)
(***************************************************************************)
\* X5 is about to call commit on a node
CommitPending ==
    /\ algo = "xcc"
    /\ pc = "X5"
    /\ Top.x # Top.i
    /\ FwdNode(reg, Top.node) # Top.x
    /\ HasCommit(reg, FwdNode(reg, Top.node))

\* X6 is about to call uncommit on a node
UncommitPending ==
    /\ algo = "xcc"
    /\ pc = "X6"
    /\ BwdNode(reg, Top.node) # Top.x
    /\ HasCommit(reg, BwdNode(reg, Top.node))

\* C26 as stated: in the forward phase of xcc, commit is only called on
\* option nodes whose colour is 0 or positive, never on a node of colour
\* -1, and uncommit never sees such a node either.
C26_NeverMarked ==
    /\ CommitPending => reg.colour[FwdNode(reg, Top.node)] >= 0
    /\ UncommitPending => reg.colour[BwdNode(reg, Top.node)] >= 0

\* C26: in the forward phase of xcc, commit is called on option nodes whose
\* colour is 0, positive or -1; on a node of colour -1 the call changes
\* nothing in the network, and so does the call of uncommit on such a node.
C26_MarkedUntouched ==
    /\ CommitPending =>
           /\ reg.colour[FwdNode(reg, Top.node)] >= -1
           /\ reg.colour[FwdNode(reg, Top.node)] = -1 =>
                  CommitNode(reg, FwdNode(reg, Top.node)) = reg
    /\ UncommitPending =>
           /\ reg.colour[BwdNode(reg, Top.node)] >= -1
           /\ reg.colour[BwdNode(reg, Top.node)] = -1 =>
                  UncommitNode(reg, BwdNode(reg, Top.node)) = reg

\* at the second level, X5 is about to commit a node that the purify of the
\* first level marked -1
C26_Witness ==
    /\ CommitPending
    /\ Len(stack) = 2
    /\ reg.colour[FwdNode(reg, Top.node)] = -1
    /\ built.colour[FwdNode(reg, Top.node)] > 0

(***************************************************************************)
(* Frames of the link operations (SpecOps).  The steps of the driver are   *)
(* single calls, made on the linked nodes and on the array network at the  *)
(* same time; a frame compares the links before and after the call.        *)
(***************************************************************************)
\* up, down, left and right of every node and the size of every item, of
\* the linked nodes and of the lists of the array network
LinkView(r) ==
    [up |-> r.up, down |-> r.down, left |-> r.left, right |-> r.right,
     size |-> [h \in 1..Width |-> r.size[h]]]

ListView(nt) ==
    [up |-> nt.up, down |-> nt.down, left |-> nt.left, right |-> nt.right,
     size |-> [h \in 1..Width |-> nt.top[h]]]

\* the item of a header or of an option node, read off the matrix
ColumnOf(n) ==
    IF n <= Width THEN n ELSE ItemAt(RowOf(n), n - SpacerOf(RowOf(n)))

\* the headers and the option nodes of the items C
NodesOfItems(C) ==
    {n \in 1..FinalSpacer :
        (n <= Width \/ IsOptionNode(n)) /\ ColumnOf(n) \in C}

\* node n sits between its vertical neighbours
Linked(v, n) == v.down[v.up[n]] = n /\ v.up[v.down[n]] = n

\* the step is the call op(id), or the call of its inverse
Calls(op, id) ==
    /\ Len(undo') = Len(undo) + 1
    /\ undo'[Len(undo')] = [op |-> op, id |-> id]

Reverts(op, id) ==
    /\ Len(undo') = Len(undo) - 1
    /\ undo[Len(undo)] = [op |-> op, id |-> id]

\* between the views a and b: no left or right changed; up and down of p,
\* the place of p in its column and the size of its column are the same;
\* up and down changed only in the columns C and sizes only of the items C
FrameOfHide(a, b, p, C) ==
    /\ b.left = a.left /\ b.right = a.right
    /\ b.up[p] = a.up[p] /\ b.down[p] = a.down[p]
    /\ Linked(b, p) <=> Linked(a, p)
    /\ b.size[ColumnOf(p)] = a.size[ColumnOf(p)]
    /\ \A n \in DOMAIN a.up :
           (b.up[n] # a.up[n] \/ b.down[n] # a.down[n]) => n \in NodesOfItems(C)
    /\ \A h \in 1..Width : b.size[h] # a.size[h] => h \in C

\* the items of the other nodes of the row of p
OtherItems(p) == {ColumnOf(q) : q \in RowNodes(RowOf(p)) \ {p}}

\* C27: hide(p) and unhide(p) of an option node p change no left or right
\* of any node, leave up and down of p as they are, leave p where it is in
\* its column, and do not change the size of the column of p; what changes
\* lies in the columns of the other option nodes of the row of p: links of
\* those columns and the sizes of their items.  In both implementations.
C27_HideFrame ==
    [][\A p \in Options(reg) :
          (Calls("hide", p) \/ Reverts("hide", p)) =>
              /\ FrameOfHide(LinkView(reg), LinkView(reg'), p, OtherItems(p))
              /\ net.ok => FrameOfHide(ListView(net), ListView(net'), p,
                                       OtherItems(p))]_vars

\* hide went through on a node whose row has two other nodes, in both
\* implementations
C27_Witness ==
    /\ algo = "ops"
    /\ Len(undo) = 1
    /\ undo[1].op = "hide"
    /\ net.ok
    /\ Cardinality(RowItems(RowOf(undo[1].id))) >= 3
    /\ reg # built

\* the option nodes in the column of item h, as the walk down from h in the
\* view v meets them
ColumnWalk(v, h) == WalkUntil(v.down, h, v.down[h], FinalSpacer + 1)

\* the other nodes of the rows that go through item i in the view v
RowsThrough(v, i) ==
    UNION {RowNodes(RowOf(p)) \ {p} : p \in Range(ColumnWalk(v, i))}

\* between the views a and b: the vertical ring and the size of i are the
\* same; i is out of the horizontal ring and keeps its own left and right;
\* every other column lost exactly its nodes of the rows through i, and its
\* size went down by one for each
FrameOfCover(a, b, i) ==
    /\ ColumnWalk(b, i) = ColumnWalk(a, i)
    /\ \A n \in Range(ColumnWalk(a, i)) \cup {i} :
           b.up[n] = a.up[n] /\ b.down[n] = a.down[n]
    /\ b.size[i] = a.size[i]
    /\ b.left[i] = a.left[i] /\ b.right[i] = a.right[i]
    /\ b.right = [a.right EXCEPT ![a.left[i]] = a.right[i]]
    /\ b.left = [a.left EXCEPT ![a.right[i]] = a.left[i]]
    /\ \A h \in (1..Width) \ {i} :
           /\ Range(ColumnWalk(b, h))
                  = Range(ColumnWalk(a, h)) \ RowsThrough(a, i)
           /\ b.size[h] = a.size[h]
                  - Cardinality(Range(ColumnWalk(a, h)) \cap RowsThrough(a, i))

FrameOfColour(a, b, colour, p, hiding) ==
    \A q \in RowNodes(RowOf(p)) \ {p} :
        IF colour[q] < 0
        THEN /\ b.size[ColumnOf(q)] = a.size[ColumnOf(q)]
             /\ \A n \in NodesOfItems({ColumnOf(q)}) :
                    b.up[n] = a.up[n] /\ b.down[n] = a.down[n]
        ELSE /\ b.size[ColumnOf(q)]
                    = a.size[ColumnOf(q)] + (IF hiding THEN -1 ELSE 1)
             /\ b.down[a.up[q]] = (IF hiding THEN a.down[q] ELSE q)
             /\ b.up[a.down[q]] = (IF hiding THEN a.up[q] ELSE q)

\* the frame on the linked nodes of LinkColour and on the lists of
\* NetworkColour
FrameOfColourBoth(p, hiding) ==
    /\ reg.kind[p] = "LinkColour" =>
           FrameOfColour(LinkView(reg), LinkView(reg'), reg.colour, p, hiding)
    /\ (net.ok /\ net.cls = "NetworkColour") =>
           FrameOfColour(ListView(net), ListView(net'), net.colour, p, hiding)

\* C29: in the coloured network, hide(p) and unhide(p) pass over every
\* node of the row of p whose colour is negative: it is neither taken out
\* of nor put back into its column and the size of its column does not
\* change; every node of the row whose colour is not negative is taken out
\* (put back) and the size of its column goes down (up) by one.
C29_ColouredHide ==
    [][\A p \in Options(reg) :
          /\ Calls("hide", p) => FrameOfColourBoth(p, TRUE)
          /\ Reverts("hide", p) => FrameOfColourBoth(p, FALSE)]_vars

\* after a purify, hide went through on a node whose row has a node of
\* colour -1 and a node of colour 0, in both implementations
C29_Witness ==
    /\ algo = "ops"
    /\ Len(undo) = 2
    /\ undo[1].op = "purify"
    /\ undo[2].op = "hide"
    /\ net.ok
    /\ \E q \in RowNodes(RowOf(undo[2].id)) \ {undo[2].id} :
           reg.colour[q] < 0 /\ net.colour[q] < 0
    /\ \E q \in RowNodes(RowOf(undo[2].id)) \ {undo[2].id} :
           reg.colour[q] = 0 /\ net.colour[q] = 0

\* node n is met by the walk down its column in the view v
InColumn(v, n) == n \in Range(ColumnWalk(v, ColumnOf(n)))

\* the option nodes of item h that a hide of one of the nodes H takes out:
\* the other nodes of the rows of H, unless their colour is negative
TakenOut(H, colour, h) ==
    {n \in UNION {RowNodes(RowOf(q)) \ {q} : q \in H} :
        ColumnOf(n) = h /\ colour[n] >= 0}

\* between the views a and b with the colours ca and cb, for the column Q
\* of p as it is linked in a: the header takes the colour c of p; a node of
\* Q of colour c is marked -1, stays in the column, and the nodes of its
\* row stay where they are; a node of Q of another colour keeps it, stays
\* in the column, and the other nodes of its row are taken out as hide
\* does; the sizes of the other items go down by the nodes taken out; no
\* colour changes outside the column, no left or right changes
FrameOfPurify(a, b, ca, cb, p, c, Q) ==
    /\ cb[ColumnOf(p)] = c
    /\ ColumnWalk(b, ColumnOf(p)) = ColumnWalk(a, ColumnOf(p))
    /\ b.size[ColumnOf(p)] = a.size[ColumnOf(p)]
    /\ \A q \in Q :
           IF ca[q] = c
           THEN /\ cb[q] = -1
                /\ \A n \in RowNodes(RowOf(q)) : InColumn(b, n) <=> InColumn(a, n)
           ELSE /\ cb[q] = ca[q]
                /\ \A n \in RowNodes(RowOf(q)) \ {q} :
                       ca[n] >= 0 => ~InColumn(b, n)
    /\ \A h \in (1..Width) \ {ColumnOf(p)} :
           b.size[h] = a.size[h]
               - Cardinality(TakenOut({q \in Q : ca[q] # c}, ca, h))
    /\ \A n \in DOMAIN ca : n \notin Q \cup {ColumnOf(p)} => cb[n] = ca[n]
    /\ b.left = a.left /\ b.right = a.right

\* every node of the rows through the nodes Q is linked in its column
Untaken(v, Q) == \A q \in Q : \A n \in RowNodes(RowOf(q)) : InColumn(v, n)

\* hide applied to the nodes q[k], q[k+1], ... in turn, linked and array
RECURSIVE HideEach(_, _, _), NetHideEach(_, _, _)
HideEach(r, q, k) ==
    IF k > Len(q) THEN r ELSE HideEach(Strict(r, hide(r, q[k])), q, k + 1)

NetHideEach(nt, q, k) ==
    IF k > Len(q) THEN nt
    ELSE NetHideEach(Strict(nt, net_hide(nt, q[k])), q, k + 1)

\* the nodes of the sequence q whose colour is c / is not c, in order
OfColour(q, colour, c) == SelectSeq(q, LAMBDA n : colour[n] = c)
NotOfColour(q, colour, c) == SelectSeq(q, LAMBDA n : colour[n] # c)

\* x with the colour of header i set to c and the nodes M marked -1
Marked(x, i, c, M) ==
    [x EXCEPT !.colour = [n \in DOMAIN x.colour |->
                             IF n = i THEN c
                             ELSE IF n \in Range(M) THEN -1
                             ELSE x.colour[n]]]

\* C30: purify(p), with c the colour of p and i its column, sets the colour
\* of the header i to c and, for every option node q linked in column i:
\* if the colour of q is c it becomes -1 and q stays linked with its row
\* untouched, otherwise (any other colour, 0 included) hide(q) is applied;
\* no node outside column i changes colour.  In both implementations: the
\* state after the call is the state before it with hide applied to the
\* nodes of the other colours, the header coloured and the nodes of colour
\* c marked, and nothing else; where no row through the column was taken
\* out before, the links and sizes are as FrameOfPurify says.
C30_Purify ==
    [][\A p \in Options(reg) :
          Calls("purify", p) =>
              /\ reg' = Marked(HideEach(reg,
                                   NotOfColour(ColumnWalk(LinkView(reg), ColumnOf(p)),
                                               reg.colour, reg.colour[p]), 1),
                               ColumnOf(p), reg.colour[p],
                               OfColour(ColumnWalk(LinkView(reg), ColumnOf(p)),
                                        reg.colour, reg.colour[p]))
              /\ Untaken(LinkView(reg), Range(ColumnWalk(LinkView(reg), ColumnOf(p)))) =>
                     FrameOfPurify(LinkView(reg), LinkView(reg'), reg.colour,
                                   reg'.colour, p, reg.colour[p],
                                   Range(ColumnWalk(LinkView(reg), ColumnOf(p))))
              /\ net.ok =>
                     /\ net' = Marked(NetHideEach(net,
                                   NotOfColour(ColumnWalk(ListView(net), ColumnOf(p)),
                                               net.colour, net.colour[p]), 1),
                               ColumnOf(p), net.colour[p],
                               OfColour(ColumnWalk(ListView(net), ColumnOf(p)),
                                        net.colour, net.colour[p]))
                     /\ Untaken(ListView(net), Range(ColumnWalk(ListView(net), ColumnOf(p)))) =>
                            FrameOfPurify(ListView(net), ListView(net'), net.colour,
                                   net'.colour, p, net.colour[p],
                                   Range(ColumnWalk(ListView(net), ColumnOf(p))))]_vars

\* purify went through, in both implementations, on a column as built that
\* holds, next to the node it was called on, a node of another colour
\* whose row has a second node
C30_Witness ==
    /\ algo = "ops"
    /\ Len(undo) = 1
    /\ undo[1].op = "purify"
    /\ net.ok
    /\ reg.colour[undo[1].id] = -1 /\ net.colour[undo[1].id] = -1
    /\ \E q \in Options(reg) :
           /\ built.column[q] = built.column[undo[1].id]
           /\ built.colour[q] # built.colour[undo[1].id]
           /\ \E n \in RowNodes(RowOf(q)) \ {q} :
                  ~InColumn(LinkView(reg), n) /\ ~InColumn(ListView(net), n)

\* unhide applied to the nodes q[k], q[k+1], ... in turn
RECURSIVE UnhideEach(_, _, _)
UnhideEach(r, q, k) ==
    IF k > Len(q) THEN r ELSE UnhideEach(Strict(r, unhide(r, q[k])), q, k + 1)

\* cover(i) as hide applied to the nodes of column i from the top to the
\* bottom, and the header taken out of its ring
CoverTopDown(r, i) ==
    Column_unlink(HideEach(r, ColumnWalk(LinkView(r), i), 1), i)

\* uncover(i) as the header put back, and unhide applied to the nodes of
\* column i from the bottom to the top
UncoverBottomUp(r, i) ==
    UnhideEach(Column_relink(r, i), Reverse(ColumnWalk(LinkView(r), i)), 1)

\* r2 is what cover(i) makes of r, by its loop resumed after any node of
\* the column on the state in which the nodes down to it are hidden, and
\* as a whole
CoversInOrder(r, r2, i) ==
    /\ r2 = CoverTopDown(r, i)
    /\ \A k \in 1..Len(ColumnWalk(LinkView(r), i)) :
           r2 = Column_unlink(
                    Column_cover_loop(
                        HideEach(r, SubSeq(ColumnWalk(LinkView(r), i), 1, k), 1),
                        i, ColumnWalk(LinkView(r), i)[k]), i)

\* r2 is what uncover(i) makes of r, by its loop resumed after any node of
\* the column on the state in which the nodes up to it are unhidden, and
\* as a whole
UncoversInOrder(r, r2, i) ==
    /\ r2 = UncoverBottomUp(r, i)
    /\ \A k \in 1..Len(ColumnWalk(LinkView(r), i)) :
           r2 = Column_uncover_loop(
                    UnhideEach(Column_relink(r, i),
                               SubSeq(Reverse(ColumnWalk(LinkView(r), i)), 1, k), 1),
                    i, Reverse(ColumnWalk(LinkView(r), i))[k])

\* the place of node n in the order X5 takes the other nodes of the option
\* of x: 1 for the node after x, going round the option; x itself closes
\* the round
PlaceAfter(x, n) ==
    IF n = x THEN Cardinality(RowNodes(RowOf(x))) ELSE CyclicPlace(x, n)

\* the step is the body of X5's loop on node n at the top level
CommitsNode(n) ==
    /\ pc = "X5" /\ pc' = "X5"
    /\ Len(stack') = Len(stack)
    /\ stack'[Len(stack)].x = Top.x
    /\ stack'[Len(stack)].node = n + 1
    /\ stack' # stack

\* the step is the body of X6's loop on node n at the top level
UncommitsNode(n) ==
    /\ pc = "X6" /\ pc' = "X6"
    /\ stack'[Len(stack)].node = n - 1
    /\ stack' # stack

\* the steps of one candidate x: X5 commits the other nodes of the option
\* of x at the places 1, 2, ... and recurses after the last; X6 starts at
\* the last place, uncommits at the places ..., 2, 1 and leaves after the
\* first
CandidateOrder ==
    /\ \A n \in Options(reg) :
           CommitsNode(n) =>
               /\ n \in RowNodes(RowOf(Top.x)) \ {Top.x}
               /\ PlaceAfter(Top.x, n) = CyclicPlace(Top.x, Top.node - 1) + 1
               /\ reg' = CommitNode(reg, n)
               /\ algo # "xcc" => CoversInOrder(reg, reg', reg.column[n])
    /\ pc = "X5" /\ pc' = "X2" =>
           PlaceAfter(Top.x, Top.node - 1) = Cardinality(RowNodes(RowOf(Top.x))) - 1
               \/ (Top.node - 1 = Top.x /\ Cardinality(RowNodes(RowOf(Top.x))) = 1)
    /\ \A n \in Options(reg) :
           UncommitsNode(n) =>
               /\ n \in RowNodes(RowOf(Top.x)) \ {Top.x}
               /\ PlaceAfter(Top.x, n) = PlaceAfter(Top.x, Top.node + 1) - 1
               /\ reg' = UncommitNode(reg, n)
               /\ algo # "xcc" => UncoversInOrder(reg, reg', reg.column[n])
    /\ pc = "X6" /\ pc' = "X5" =>
           PlaceAfter(Top.x, Top.node + 1) = 1
               \/ (Top.node + 1 = Top.x /\ Cardinality(RowNodes(RowOf(Top.x))) = 1)

\* X4 covers the chosen item top to bottom, X7 uncovers it bottom to top
ItemOrder ==
    /\ pc = "X2" /\ pc' = "X5" =>
           CoversInOrder(reg, reg', stack'[Len(stack')].i)
    /\ pc = "X5" /\ Len(stack') < Len(stack) =>
           UncoversInOrder(reg, reg', Top.i)

\* C31: for each candidate x tried at a level, the items uncommitted
\* (uncovered) in X6 are exactly the items committed (covered) in X5 for
\* that x, in exactly the reverse order; and uncover(i) applies unhide to
\* the options of column i bottom to top, the reverse of the top to bottom
\* order in which cover(i) applied hide.
C31_UndoOrder == [][CandidateOrder /\ ItemOrder]_vars

\* back at X5 for a second candidate, after an option of three nodes was
\* committed and uncommitted, in a column of two options or more
C31_Witness ==
    /\ pc = "X5"
    /\ choices # <<>>
    /\ choices[Len(choices)] = 2
    /\ branches[Len(branches)] >= 2
    /\ Cardinality(RowNodes(RowOf(reg.up[Top.x]))) >= 3

\* the size of item i where the generator that runs keeps it
SizeOfItem(i) ==
    IF algo \in {"search", "search_by"} THEN net.top[i] ELSE reg.size[i]

AllButLast(q) == SubSeq(q, 1, Len(q) - 1)

\* choices, branches and sol are as long as the recursion is deep, and
\* empty when the generator is exhausted
AccountingLengths ==
    /\ Len(choices) = Len(stack)
    /\ Len(branches) = Len(stack)
    /\ Len(sol) = Len(stack)
    /\ pc = "done" => choices = <<>> /\ branches = <<>> /\ sol = <<>>

\* a step that enters a level pushes the size of the chosen item and 1; a
\* step that leaves a level pops both; a step inside a level that changes
\* the candidate adds 1 to the last entry of choices; no other step changes
\* either vector
AccountingSteps ==
    /\ Len(stack') = Len(stack) + 1 =>
           /\ branches' = Append(branches, SizeOfItem(stack'[Len(stack')].i))
           /\ choices' = Append(choices, 1)
           /\ AllButLast(sol') = sol
    /\ Len(stack') = Len(stack) - 1 =>
           /\ branches' = AllButLast(branches)
           /\ choices' = AllButLast(choices)
           /\ sol' = AllButLast(sol)
    /\ Len(stack') = Len(stack) =>
           /\ branches' = branches
           /\ IF stack # <<>> /\ stack'[Len(stack)].x # Top.x
              THEN /\ choices' = [choices EXCEPT ![Len(choices)] = @ + 1]
                   /\ sol' = [sol EXCEPT ![Len(sol)] = stack'[Len(stack)].x]
              ELSE choices' = choices /\ sol' = sol

\* C32: throughout a search (xc, Network.search) choices and branches have
\* the length of the partial solution; entering a level pushes the size of
\* the chosen item onto branches and 1 onto choices, moving to the next
\* candidate increments only the last entry of choices, backtracking pops
\* both; after the search is fully consumed both vectors and the solution
\* are empty.
C32_Accounting == [](AccountingLengths) /\ [][AccountingSteps]_vars

\* Network.search moved past the second of the two candidates of the item
\* of level 0, after a solution was yielded
C32_Witness ==
    /\ algo = "search_by"
    /\ pc = "S5"
    /\ choices = <<3>>
    /\ branches = <<2>>
    /\ out # <<>>

\* the members of a set of numbers in increasing order
Ascending(S) ==
    [k \in 1..Cardinality(S) |->
        CHOOSE r \in S : Cardinality({q \in S : q <= r}) = k]

\* the rows of the entries of sol below level k
RowsBelow(k) == {RowOf(sol[j]) : j \in 1..(k - 1)}

\* the nodes of the column of the item of level k when it was chosen, top
\* to bottom, read off the matrix: the rows that hold the item and can
\* stand next to the rows chosen at the levels below
ColumnWhenChosen(k) ==
    [n \in 1..Cardinality(Candidates(RowsBelow(k), stack[k].i)) |->
        NodeAt(Ascending(Candidates(RowsBelow(k), stack[k].i))[n], stack[k].i)]

\* C33: at every yield of xc / xcc the solution vector has one entry per
\* level, and for each level k: 1 <= choices[k] <= branches[k], and sol[k]
\* is an option node (never a header or a spacer), the choices[k]-th node
\* from the top of the column of the item chosen at level k as that column
\* stood when the item was chosen (branches[k] nodes; the column of the
\* item is still linked like that at the yield).
C33_YieldVector ==
    pc = "yield" =>
        /\ Len(sol) = Len(stack)
        /\ Len(choices) = Len(stack)
        /\ Len(branches) = Len(stack)
        /\ sol = out[Len(out)]
        /\ \A k \in 1..Len(sol) : sol[k] \in Options(reg)
        /\ \A k \in 1..Len(sol) :
               /\ 1 <= choices[k]
               /\ choices[k] <= branches[k]
               /\ branches[k] = Len(ColumnWhenChosen(k))
               /\ sol[k] = ColumnWhenChosen(k)[choices[k]]
               /\ ColumnWalk(LinkView(reg), stack[k].i) = ColumnWhenChosen(k)

\* a yield two levels deep whose entry of the second level is the second
\* node of its column
C33_Witness ==
    /\ pc = "yield"
    /\ Len(sol) >= 2
    /\ choices[2] = 2
    /\ branches[2] >= 2

\* the walk of hide from `node` on comes back to self within `fuel` steps:
\* node += 1, and node = node.up at a spacer
RECURSIVE HideWalkReturns(_, _, _, _)
HideWalkReturns(r, self, node, fuel) ==
    IF node = self THEN TRUE
    ELSE IF fuel = 0 \/ node \notin 0..(r.n - 1) THEN FALSE
    ELSE HideWalkReturns(r, self,
                         IF r.column[node] = NoneId THEN r.up[node]
                         ELSE node + 1, fuel - 1)

\* the walk of unhide from `node` on comes back to self within `fuel`
\* steps: node -= 1, and node = node.down at a spacer
RECURSIVE UnhideWalkReturns(_, _, _, _)
UnhideWalkReturns(r, self, node, fuel) ==
    IF node = self THEN TRUE
    ELSE IF fuel = 0 \/ node \notin 0..(r.n - 1) THEN FALSE
    ELSE UnhideWalkReturns(r, self,
                           IF r.column[node] = NoneId THEN r.down[node]
                           ELSE node - 1, fuel - 1)

\* in the state as it is, the row walks of hide and unhide from every
\* option node and the column walks of cover and purify (down) and of
\* uncover and unpurify (up) from every header end, within as many steps as
\* there are nodes
WalksReturn ==
    /\ \A x \in Options(reg) :
           /\ HideWalkReturns(reg, x, x + 1, reg.n)
           /\ UnhideWalkReturns(reg, x, x - 1, reg.n)
    /\ \A h \in 1..Width :
           /\ Len(WalkUntil(reg.down, h, reg.down[h], reg.n)) < reg.n
           /\ Len(WalkUntil(reg.up, h, reg.up[h], reg.n)) < reg.n

\* xcc was given a network of plain Link nodes, which have no commit (C38)
PlainForXcc ==
    algo = "xcc" /\ \E x \in Options(built) : built.kind[x] = "Link"

\* C34: for every matrix and primary count, xc and xcc, pulled repeatedly,
\* yield finitely many solutions and then finish; every row walk of hide /
\* unhide and every column walk of cover / uncover / purify / unpurify
\* inside them terminates.  (Finishing is the exhausted generator; on a
\* network of plain Link nodes xcc may end with the AttributeError of C38
\* instead.)
C34_Termination ==
    /\ <>(pc \in {"done", "error"})
    /\ ~PlainForXcc => <>(pc = "done")
    /\ [](Len(out) <= 2 ^ Len(matrix))
    /\ []WalksReturn

\* xcc is exhausted after it yielded two solutions
C34_Witness ==
    /\ algo = "xcc"
    /\ pc = "done"
    /\ Len(out) >= 2

\* the choices vector of a yielded vector v, read off the matrix: the place
\* of v[k] among the rows that hold its item and can stand next to the rows
\* of v[1] .. v[k-1], counted from the top
ChoicesOf(v) ==
    [k \in 1..Len(v) |->
        Cardinality({r \in Candidates({RowOf(v[j]) : j \in 1..(k - 1)},
                                      ColumnOf(v[k])) : r <= RowOf(v[k])})]

\* a comes before b in the lexicographic order, compared from level 0 on
LexLess(a, b) ==
    \E k \in 1..Len(a) :
        /\ k <= Len(b)
        /\ a[k] < b[k]
        /\ \A j \in 1..(k - 1) : a[j] = b[j]

\* C35: across the successive yields of one run of xc / xcc the choices
\* vector observed at the yield strictly increases in the lexicographic
\* order (compared level by level from level 0); hence no two yields of a
\* run carry the same choices vector.  The choices vector observed at a
\* yield is the one read off the yielded vector.
C35_ChoicesIncrease ==
    /\ pc = "yield" => choices = ChoicesOf(out[Len(out)])
    /\ algo \in {"xc", "xcc"} =>
           \A a \in 1..Len(out) : \A b \in (a + 1)..Len(out) :
               LexLess(ChoicesOf(out[a]), ChoicesOf(out[b]))

\* a second yield that has the first choice of the yield before it and
\* differs from it at a deeper level
C35_Witness ==
    /\ pc = "yield"
    /\ Len(out) >= 2
    /\ Len(choices) >= 2
    /\ ChoicesOf(out[Len(out) - 1])[1] = choices[1]

\* the lists of the network and the linked nodes say the same about node id:
\* up and down of every node; left, right and size (len) of every header
SameNode(nt, r, id) ==
    /\ nt.up[id] = r.up[id]
    /\ nt.down[id] = r.down[id]
    /\ id <= Width => /\ nt.left[id] = r.left[id]
                      /\ nt.right[id] = r.right[id]
                      /\ nt.top[id] = r.size[id]

\* C36: the array implementation and the linked implementation of the link
\* operations are equivalent: for every matrix, after the same sequence of
\* cover / uncover / hide / unhide calls on corresponding ids, the lists of
\* Network (left, right, up, down, len) hold for every node id the same
\* values as the ids of the links and the sizes of the corresponding
\* DancingLink objects built by create_network.
C36_SameLists ==
    /\ net.ok
    /\ net.n = reg.n
    /\ \A id \in 0..(reg.n - 1) : SameNode(net, reg, id)

\* three calls were made, an uncover or unhide that reverts nothing among
\* them, and the links are not the built ones
C36_Witness ==
    /\ Len(out) = MaxCalls
    /\ out[1].op \in {"uncover", "unhide"}
    /\ \E k \in 2..Len(out) : out[k].op = "cover"
    /\ LinkView(reg) # LinkView(built)
    /\ \A id \in 0..(reg.n - 1) : SameNode(net, reg, id)

\* C37: Network.search with its default choose (the MRV heuristic it
\* imports) yields, for every 0/1 matrix with at least one item, the same
\* sequence of solutions as xc on the linked network built from the same
\* matrix, as vectors of option-node ids: the search does not raise, what it
\* has yielded so far is the beginning of the sequence of xc, and all of it
\* once the search is exhausted.
C37_SearchAsXc ==
    algo = "search" =>
        /\ pc # "error"
        /\ Emits(DepthFirst({}, <<>>))

\* C38: xcc degrades to xc on uncoloured input: for every 0/1 matrix (no
\* value greater than 1), running xcc on the network returned by
\* create_network completes without error and yields exactly the same
\* sequence of solutions as xc on that network.
C38_XccAsXc ==
    (algo = "xcc" /\ MatrixMax(matrix) <= 1) =>
        /\ pc # "error"
        /\ Emits(DepthFirst({}, <<>>))

\* an item without options: a header whose up and down are the header itself
EmptyItems(r) == {h \in Items(r) : r.up[h] = h /\ r.down[h] = h}

\* every link of node id is None
Cleared(r, id) ==
    /\ r.up[id] = NoneId
    /\ r.down[id] = NoneId
    /\ r.left[id] = NoneId
    /\ r.right[id] = NoneId
    /\ r.column[id] = NoneId

\* C39: discarding a network: for every network built by create_network
\* (including one that has an item with no options, i.e. a header whose up
\* and down point to itself), root.delete() terminates, clears the up / down
\* (and left / right, column) links of every node and leaves the node
\* registry empty.
C39_DeleteClears ==
    (algo = "delete" /\ pc # "built") =>
        /\ pc = "done"
        /\ out = <<>>
        /\ \A id \in 0..(reg.n - 1) : Cleared(reg, id)

=============================================================================
